---------------------------- MODULE Spec2Model ----------------------------
(***************************************************************************)
(* Walk Assistant (korjavin/walkassistant): the route-suggestion engine,   *)
(* the shared track collection and its read/write lock.                    *)
(*                                                                         *)
(* Numbers.  The Go code computes in float64.  Here a coordinate is an     *)
(* integer number of 1e-5 degrees (the scale of the polyline wire format), *)
(* a distance is an integer number of metres, and a dimensionless factor   *)
(* is a ratio num/den of two such integers.  Every float operation is the  *)
(* same operation on these fixed-point numbers, rounded to nearest.  The   *)
(* great-circle distance is taken near the equator, where one degree of    *)
(* either axis is 111.2 km.                                                *)
(***************************************************************************)
EXTENDS Integers, Naturals, Sequences, FiniteSets, TLC

(***************************************************************************)
(* Bounds of the model.                                                    *)
(***************************************************************************)
MaxRoutes == 2          \* records the track collection may hold

(***************************************************************************)
(* Program constants, in the units above.                                  *)
(***************************************************************************)
MetresPerDegree == 111195   \* 6371 km * pi / 180 (haversine, R = 6371.0)
KmPerDegree == 111          \* the "/ 111.0" of the seed sizes
UnitsPerDegree == 100000    \* 1e5, the fixed-point scale
ZigzagOffset == 1000        \* 0.01 degree
JitterPerMille == 50        \* rand.Float64()*0.1 - 0.05: at most 5% of the span
SmallDistance == 100        \* 0.1 km
MaxWaypoints == 100         \* downsampling threshold of the street conformer
DefaultLat == 5252000       \* 52.52  (Berlin)
DefaultLng == 1340500       \* 13.405
NumPentagon == 5
NumSquare == 4

None == "none"

(***************************************************************************)
(* Fixed-point arithmetic.                                                 *)
(***************************************************************************)

\* a / b rounded to the nearest integer, b > 0
RoundDiv(a, b) == (2 * a + b) \div (2 * b)

RECURSIVE SqrtSearch(_, _, _)
SqrtSearch(n, lo, hi) ==
    IF lo >= hi THEN lo
    ELSE LET mid == (lo + hi + 1) \div 2
         IN  IF mid * mid <= n THEN SqrtSearch(n, mid, hi)
                               ELSE SqrtSearch(n, lo, mid - 1)

\* math.Sqrt on a non-negative fixed-point number (floor of the root)
ISqrt(n) == SqrtSearch(n, 0, 46340)

Max2(a, b) == IF a > b THEN a ELSE b

(***************************************************************************)
(* Geo primitives.  A point is <<lat, lng>>.                               *)
(***************************************************************************)
Lat(p) == p[1]
Lng(p) == p[2]

\* haversineDistance: metres between two points
haversineDistance(p, q) ==
    IF p = q THEN 0
    ELSE LET dLat == Lat(q) - Lat(p)
             dLng == Lng(q) - Lng(p)
             \* root in units of 1e-5 degree, then metres
             r    == ISqrt(dLat * dLat + dLng * dLng)
         IN  RoundDiv((MetresPerDegree \div 5) * r, UnitsPerDegree \div 5)

RECURSIVE SumDist(_, _)
SumDist(points, i) ==
    IF i >= Len(points) THEN 0
    ELSE haversineDistance(points[i], points[i + 1]) + SumDist(points, i + 1)

\* calculateRouteDistance: 0 for fewer than 2 points, else the pairwise sum
calculateRouteDistance(points) ==
    IF Len(points) < 2 THEN 0 ELSE SumDist(points, 1)

RECURSIVE SumLat(_, _)
SumLat(points, i) ==
    IF i > Len(points) THEN 0 ELSE Lat(points[i]) + SumLat(points, i + 1)

RECURSIVE SumLng(_, _)
SumLng(points, i) ==
    IF i > Len(points) THEN 0 ELSE Lng(points[i]) + SumLng(points, i + 1)

\* the arithmetic mean of the points (callers pass at least one point)
Centroid(points) ==
    <<RoundDiv(SumLat(points, 1), Len(points)),
      RoundDiv(SumLng(points, 1), Len(points))>>

\* c + (p - c) * num/den on both axes
ScalePoint(p, c, num, den) ==
    <<Lat(c) + RoundDiv((Lat(p) - Lat(c)) * num, den),
      Lng(c) + RoundDiv((Lng(p) - Lng(c)) * num, den)>>


(***************************************************************************)
(* Candidate shaper.                                                       *)
(***************************************************************************)
\* variant: the last point is left out of the scaled route
adjustRouteDistanceShort(points, num, den) ==
    IF Len(points) = 0 THEN points
    ELSE LET c == Centroid(points)
         IN  [i \in 1..(Len(points) - 1) |-> ScalePoint(points[i], c, num, den)]

\* adjustRouteDistance: scale every point about the centroid by num/den
adjustRouteDistance(points, num, den) ==
    IF Len(points) = 0 THEN points
    ELSE LET c == Centroid(points)
         IN  [i \in 1..Len(points) |-> ScalePoint(points[i], c, num, den)]

\* variant: nothing is put between p1 and p2
ZigzagsNone(p1, p2, numZigzags) == <<>>

\* the zigzag points put between p1 and p2: numZigzags copies of the midpoint
\* moved by 0.01 degree along the perpendicular, on alternating sides
ZigzagsBetween(p1, p2, numZigzags) ==
    LET dLat   == Lat(p2) - Lat(p1)
        dLng   == Lng(p2) - Lng(p1)
        length == ISqrt(dLat * dLat + dLng * dLng)
        midLat == (Lat(p1) + Lat(p2)) \div 2
        midLng == (Lng(p1) + Lng(p2)) \div 2
    IN  IF length > 0
        THEN LET perpLat == RoundDiv((0 - dLng) * ZigzagOffset, length)
                 perpLng == RoundDiv(dLat * ZigzagOffset, length)
             IN  [j \in 1..numZigzags |->
                    IF (j - 1) % 2 = 1
                    THEN <<midLat - perpLat, midLng - perpLng>>
                    ELSE <<midLat + perpLat, midLng + perpLng>>]
        ELSE <<>>

RECURSIVE ExtendFrom(_, _, _)
ExtendFrom(points, i, numZigzags) ==
    IF i >= Len(points) THEN <<points[Len(points)]>>
    ELSE <<points[i]>> \o ZigzagsBetween(points[i], points[i + 1], numZigzags)
                       \o ExtendFrom(points, i + 1, numZigzags)

\* variant: one zigzag per pair whatever the factor
extendRouteOnce(points, num, den, infZig) ==
    IF Len(points) <= 2 \/ (den > 0 /\ num <= den) THEN points
    ELSE ExtendFrom(points, 1, 1)

\* extendRoute(points, num/den).  den = 0 is the factor +Inf, whose conversion
\* to int the language leaves to the implementation: infZig is what it gives.
extendRoute(points, num, den, infZig) ==
    IF Len(points) <= 2 \/ (den > 0 /\ num <= den) THEN points
    ELSE LET trunc      == IF den > 0 THEN num \div den ELSE infZig
             numZigzags == IF trunc - 1 < 1 THEN 1 ELSE trunc - 1
         IN  ExtendFrom(points, 1, numZigzags)

\* the padded explored box of isRouteNearExistingRoutes: 50% of the span on
\* every side
InPaddedBox(p, box) ==
    LET latPadding == (box.maxLat - box.minLat) \div 2
        lngPadding == (box.maxLng - box.minLng) \div 2
    IN  /\ Lat(p) >= box.minLat - latPadding
        /\ Lat(p) <= box.maxLat + latPadding
        /\ Lng(p) >= box.minLng - lngPadding
        /\ Lng(p) <= box.maxLng + lngPadding

PointsInBounds(points, box) ==
    Cardinality({i \in 1..Len(points) : InPaddedBox(points[i], box)})

\* isRouteNearExistingRoutes: pointsInBounds / len(points) >= 0.5; for no
\* points the quotient is 0/0 = NaN and the comparison is false
isRouteNearExistingRoutes(points, box) ==
    /\ Len(points) > 0
    /\ 2 * PointsInBounds(points, box) >= Len(points)

\* sin and cos of 2*pi*i/n in 1/10000, for the polygons the code builds
SinTab(n, i) ==
    IF n = NumPentagon
    THEN <<0, 9511, 5878, -5878, -9511>>[i + 1]
    ELSE <<0, 10000, 0, -10000>>[i + 1]

CosTab(n, i) ==
    IF n = NumPentagon
    THEN <<10000, 3090, -8090, -8090, 3090>>[i + 1]
    ELSE <<10000, 0, -10000, 0>>[i + 1]

\* the regular polygon of numPoints vertices at radius offset, closed
PolygonPoints(center, offset, numPoints) ==
    LET v == [i \in 1..numPoints |->
                <<Lat(center) + RoundDiv(offset * SinTab(numPoints, i - 1), 10000),
                  Lng(center) + RoundDiv(offset * CosTab(numPoints, i - 1), 10000)>>]
    IN  v \o <<v[1]>>

\* the 2-point diametric seed
SimplePoints(center, offset) ==
    << <<Lat(center) - offset, Lng(center) - offset>>,
       <<Lat(center) + offset, Lng(center) + offset>> >>

\* the small closed square of the max-distance ladder
RectPoints(center, offset) ==
    << <<Lat(center) - offset, Lng(center) - offset>>,
       <<Lat(center) - offset, Lng(center) + offset>>,
       <<Lat(center) + offset, Lng(center) + offset>>,
       <<Lat(center) + offset, Lng(center) - offset>>,
       <<Lat(center) - offset, Lng(center) - offset>> >>

\* math.Sqrt(km / d) / 111.0 degrees, for km given in metres (m):
\* sqrt(m / (1000 d)) * 1e5 / 111
SqrtOffset(m, d) ==
    RoundDiv(10 * ISqrt((100000 \div d) * m), KmPerDegree)

\* km / 10.0 / 111.0 degrees, for km given in metres (m)
TenthOffset(m) == RoundDiv(10 * m, KmPerDegree)

(***************************************************************************)
(* Coverage estimator.  A record of the collection is                      *)
(* [filename, trackPoints]; rs is the collection.                          *)
(***************************************************************************)
ZeroBox == [minLat |-> 0, maxLat |-> 0, minLng |-> 0, maxLng |-> 0]

PointBox(p) ==
    [minLat |-> Lat(p), maxLat |-> Lat(p), minLng |-> Lng(p), maxLng |-> Lng(p)]

\* "if lat < min {min = lat} else if lat > max {max = lat}", the same for lng
UpdateBox(box, p) ==
    LET lats == IF Lat(p) < box.minLat
                THEN [box EXCEPT !.minLat = Lat(p)]
                ELSE IF Lat(p) > box.maxLat
                     THEN [box EXCEPT !.maxLat = Lat(p)]
                     ELSE box
    IN  IF Lng(p) < lats.minLng
        THEN [lats EXCEPT !.minLng = Lng(p)]
        ELSE IF Lng(p) > lats.maxLng
             THEN [lats EXCEPT !.maxLng = Lng(p)]
             ELSE lats

\* the bounding-box loop of generateSuggestedRoutes from point j of record i
\* on: the box is set from a point only at i == 0 && j == 0 (here 1, 1)
RECURSIVE SuggestBoxFrom(_, _, _, _)
SuggestBoxFrom(rs, i, j, box) ==
    IF i > Len(rs) THEN box
    ELSE IF j > Len(rs[i].trackPoints) THEN SuggestBoxFrom(rs, i + 1, 1, box)
    ELSE IF i = 1 /\ j = 1
         THEN SuggestBoxFrom(rs, i, j + 1, PointBox(rs[i].trackPoints[j]))
         ELSE SuggestBoxFrom(rs, i, j + 1, UpdateBox(box, rs[i].trackPoints[j]))

SuggestBox(rs) == SuggestBoxFrom(rs, 1, 1, ZeroBox)

\* the bounding-box loop of generateRouteWithMinDistance: the box is set from
\* the first point met (hasPoints)
RECURSIVE MinDistanceBoxFrom(_, _, _, _, _)
MinDistanceBoxFrom(rs, i, j, box, hasPoints) ==
    IF i > Len(rs) THEN box
    ELSE IF j > Len(rs[i].trackPoints)
         THEN MinDistanceBoxFrom(rs, i + 1, 1, box, hasPoints)
    ELSE IF ~hasPoints
         THEN MinDistanceBoxFrom(rs, i, j + 1, PointBox(rs[i].trackPoints[j]), TRUE)
         ELSE MinDistanceBoxFrom(rs, i, j + 1,
                                 UpdateBox(box, rs[i].trackPoints[j]), TRUE)

MinDistanceBox(rs) == MinDistanceBoxFrom(rs, 1, 1, ZeroBox, FALSE)

RECURSIVE AllTrackPoints(_, _)
AllTrackPoints(rs, i) ==
    IF i > Len(rs) THEN <<>> ELSE rs[i].trackPoints \o AllTrackPoints(rs, i + 1)

\* variant: the four corners, the first one not repeated
PerimeterOpen(box, jit) ==
    LET latRange  == box.maxLat - box.minLat
        lngRange  == box.maxLng - box.minLng
        minLatVar == box.minLat + RoundDiv(jit[1] * latRange, 1000)
        minLngVar == box.minLng + RoundDiv(jit[2] * lngRange, 1000)
        maxLatVar == box.maxLat + RoundDiv(jit[3] * latRange, 1000)
        maxLngVar == box.maxLng + RoundDiv(jit[4] * lngRange, 1000)
    IN  << <<minLatVar, minLngVar>>, <<minLatVar, maxLngVar>>,
           <<maxLatVar, maxLngVar>>, <<maxLatVar, minLngVar>> >>

\* variant: the corners are visited crosswise
PerimeterCrossed(box, jit) ==
    LET latRange  == box.maxLat - box.minLat
        lngRange  == box.maxLng - box.minLng
        minLatVar == box.minLat + RoundDiv(jit[1] * latRange, 1000)
        minLngVar == box.minLng + RoundDiv(jit[2] * lngRange, 1000)
        maxLatVar == box.maxLat + RoundDiv(jit[3] * latRange, 1000)
        maxLngVar == box.maxLng + RoundDiv(jit[4] * lngRange, 1000)
    IN  << <<minLatVar, minLngVar>>, <<maxLatVar, maxLngVar>>,
           <<minLatVar, maxLngVar>>, <<maxLatVar, minLngVar>>,
           <<minLatVar, minLngVar>> >>

\* the jittered perimeter: jit = <<minLat, minLng, maxLat, maxLng>> offsets in
\* 1/1000 of the span
Perimeter(box, jit) ==
    LET latRange  == box.maxLat - box.minLat
        lngRange  == box.maxLng - box.minLng
        minLatVar == box.minLat + RoundDiv(jit[1] * latRange, 1000)
        minLngVar == box.minLng + RoundDiv(jit[2] * lngRange, 1000)
        maxLatVar == box.maxLat + RoundDiv(jit[3] * latRange, 1000)
        maxLngVar == box.maxLng + RoundDiv(jit[4] * lngRange, 1000)
    IN  << <<minLatVar, minLngVar>>, <<minLatVar, maxLngVar>>,
           <<maxLatVar, maxLngVar>>, <<maxLatVar, minLngVar>>,
           <<minLatVar, minLngVar>> >>

(***************************************************************************)
(* Street conformer.  A response of the routing service is                 *)
(* [transport, status, json, code, routes], routes a sequence of           *)
(* [geometry, distance]: geometry is the point sequence the encoded path   *)
(* decodes to, distance the length the service reports, in metres.         *)
(***************************************************************************)
\* for i := 0; i < len(points); i += step: the points at i, i + step, ...
SampleFrom(points, i, step) ==
    LET count == IF i > Len(points) THEN 0 ELSE (Len(points) - i) \div step + 1
    IN  [k \in 1..count |-> points[i + (k - 1) * step]]

\* variant: every point is sent
DownsampleNone(points) == points

\* variant: the last point is not added to the sample
DownsampleStride(points) ==
    IF Len(points) > MaxWaypoints
    THEN SampleFrom(points, 1, Max2(Len(points) \div MaxWaypoints, 1))
    ELSE points

\* the waypoints sent: every step-th point, and the last point when the
\* sample does not end with an equal one
Downsample(points) ==
    IF Len(points) > MaxWaypoints
    THEN LET step    == Max2(Len(points) \div MaxWaypoints, 1)
             sampled == SampleFrom(points, 1, step)
         IN  IF sampled[Len(sampled)] # points[Len(points)]
             THEN Append(sampled, points[Len(points)])
             ELSE sampled
    ELSE points

RECURSIVE BoxOfFrom(_, _, _)
BoxOfFrom(points, i, box) ==
    IF i > Len(points) THEN box
    ELSE IF i = 1 THEN BoxOfFrom(points, 2, PointBox(points[1]))
    ELSE BoxOfFrom(points, i + 1, UpdateBox(box, points[i]))

\* 2 * (width + height) of the bounding box of the points
EstimatedDistance(points) ==
    LET b == BoxOfFrom(points, 1, ZeroBox)
    IN  2 * (haversineDistance(<<b.minLat, b.minLng>>, <<b.minLat, b.maxLng>>)
             + haversineDistance(<<b.minLat, b.minLng>>, <<b.maxLat, b.minLng>>))

NoRoute == [points |-> <<>>, distance |-> 0, followsStreets |-> FALSE]

ConformError == [err |-> TRUE, route |-> NoRoute]

\* what getRouteFollowingStreets returns on a response that has a route
ConformedRoute(resp) ==
    LET trackPoints == resp.routes[1].geometry
        computed    == IF Len(trackPoints) >= 2
                       THEN calculateRouteDistance(trackPoints) ELSE 0
        reported    == resp.routes[1].distance
        actual      == IF computed < SmallDistance
                       THEN IF reported < SmallDistance
                            THEN EstimatedDistance(trackPoints)
                            ELSE reported
                       ELSE computed
    IN  [points |-> trackPoints, distance |-> actual, followsStreets |-> TRUE]

\* getRouteFollowingStreets on the response it got: the status code is only
\* read for a log line
getRouteFollowingStreets(resp) ==
    IF ~resp.transport THEN ConformError
    ELSE IF ~resp.json THEN ConformError
    ELSE IF resp.code # "Ok" \/ Len(resp.routes) = 0 THEN ConformError
    ELSE [err |-> FALSE, route |-> ConformedRoute(resp)]

(***************************************************************************)
(* The inputs the model draws from.                                        *)
(***************************************************************************)
\* what a file of the data directory can hold: a GPX track, or bytes that do
\* not parse as GPX
TrackOf(content) ==
    CASE content = "city"   -> << <<1000, 1000>>, <<3000, 2000>>, <<2000, 4000>> >>
      [] content = "block"  -> << <<2000, 2000>>, <<2300, 2300>> >>
      [] content = "nopts"  -> <<>>
      [] OTHER              -> <<>>

GpxContents == {"city", "block", "nopts"}
GpxNames == {"a.gpx", "b.gpx"}
UploadNames == GpxNames \cup {"notes.txt"}

Dir(a, b) == [n \in GpxNames |-> IF n = "a.gpx" THEN a ELSE b]

\* path geometries the routing service may answer for waypoints w
RECURSIVE Reverse(_)
Reverse(seq) ==
    IF Len(seq) = 0 THEN <<>> ELSE Append(Reverse(Tail(seq)), Head(seq))

Geometry(kind, w) ==
    CASE kind = "same"         -> w
      [] kind = "thereAndBack" -> w \o Tail(Reverse(w))
      [] kind = "far"          ->
            [i \in 1..Len(w) |-> <<Lat(w[i]) + 50000, Lng(w[i]) + 50000>>]
      [] kind = "short"        -> << w[1], w[2], w[1] >>
      [] kind = "farShort"     ->
            << <<Lat(w[1]) + 50000, Lng(w[1]) + 50000>>,
               <<Lat(w[2]) + 50000, Lng(w[2]) + 50000>>,
               <<Lat(w[1]) + 50000, Lng(w[1]) + 50000>> >>
      [] kind = "tiny"         -> << w[1], <<Lat(w[1]) + 1, Lng(w[1])>>, w[1] >>
      [] kind = "single"       -> << w[1] >>
      [] OTHER                 -> <<>>

\* the jitter the random source may give: <<minLat, minLng, maxLat, maxLng>>
JitterOut ==
    <<0 - JitterPerMille, 0 - JitterPerMille, JitterPerMille - 1, JitterPerMille - 1>>
JitterIn ==
    <<JitterPerMille - 1, JitterPerMille - 1, 0 - JitterPerMille, 0 - JitterPerMille>>

\* A run takes place in one environment, which bounds what the clients, the
\* random source and the routing service do in it: the data directory the
\* process starts with, whether clients upload, the jitters drawn and the
\* geometries the service answers with.
QuietEnvironments ==
    { [dir |-> d, uploads |-> FALSE, contents |-> {},
       jitters |-> {JitterOut, JitterIn},
       geometries |-> {"same", "thereAndBack", "far", "short", "farShort",
                       "single", "empty"}] :
      d \in { Dir(None, None), Dir("city", None), Dir("block", None),
              Dir("nopts", "city"), Dir("city", "block") } }

BusyEnvironments ==
    { [dir |-> d, uploads |-> TRUE, contents |-> {"block", "garbage"},
       jitters |-> {JitterOut},
       geometries |-> {"short"}] :
      d \in { Dir(None, None) } }

Environments == QuietEnvironments \cup BusyEnvironments

\* requested distances in metres (0 = unset)
MinDistances == {0, 3000}
MaxDistances == {0, 5000}

\* what converting +Inf to int may give
InfZigzags == {0, 3}

\* lengths the service reports, in metres: none, one between the requested
\* min and max, and one within 10% above the requested max
ReportedDistances == {0, 4000, 5200}

OkResponse(g, d, status) ==
    [transport |-> TRUE, status |-> status, json |-> TRUE, code |-> "Ok",
     routes |-> << [geometry |-> g, distance |-> d] >>]

FailedResponses ==
    { [transport |-> FALSE, status |-> 0, json |-> FALSE, code |-> "", routes |-> <<>>],
      [transport |-> TRUE, status |-> 502, json |-> FALSE, code |-> "", routes |-> <<>>],
      [transport |-> TRUE, status |-> 400, json |-> TRUE, code |-> "NoRoute",
       routes |-> <<>>],
      [transport |-> TRUE, status |-> 200, json |-> TRUE, code |-> "Ok",
       routes |-> <<>>] }

\* every behaviour of the routing service for waypoints w
Responses(kinds, w) ==
    FailedResponses
    \cup { OkResponse(Geometry(k, w), d, 200) : k \in kinds, d \in ReportedDistances }
    \cup { OkResponse(Geometry("same", w), 0, 500) }

(***************************************************************************)
(* State.                                                                  *)
(***************************************************************************)
VARIABLES
    env,           \* the environment of the run (never changes)
    routes,        \* the shared track collection (var routes []RouteData)
    files,         \* the data directory: file name -> content, or None
    readerCount,   \* routesMutex: read locks held
    writer,        \* routesMutex: who holds the write lock, or None
    writerPending, \* routesMutex: who has called Lock() and waits for it
    pcM, loadQ,    \* main(): position, and the globbed files still to load
    pcU, up,       \* the upload request in progress: position and locals
    pcR, rq,       \* the suggest / routes request in progress: position, locals
    dec,           \* decodePolyline called by itself: its locals and position
    wp,            \* the downsampling of getRouteFollowingStreets by itself
    cf,            \* getRouteFollowingStreets called by itself
    pf             \* a pure function called by itself: arguments and result

vars == <<env, routes, files, readerCount, writer, writerPending,
          pcM, loadQ, pcU, up, pcR, rq, dec, wp, cf, pf>>

\* the functions called by themselves
funcVars == <<dec, wp, cf, pf>>

lockVars == <<readerCount, writer, writerPending>>
mainVars == <<pcM, loadQ>>
uploadVars == <<pcU, up>>
requestVars == <<pcR, rq>>

(***************************************************************************)
(* routesMutex (sync.RWMutex).  A goroutine that has called Lock() keeps   *)
(* later RLock() calls waiting until it has had the lock.                  *)
(***************************************************************************)
CanRLock == writer = None /\ writerPending = {}
CanLock(p) == writer = None /\ readerCount = 0 /\ p \in writerPending

\* routesMutex.Lock() is called: the writer is announced
LockCall(p) ==
    /\ writerPending' = writerPending \cup {p}
    /\ UNCHANGED <<readerCount, writer>>

\* routesMutex.Lock() returns
LockAcquire(p) ==
    /\ CanLock(p)
    /\ writer' = p
    /\ writerPending' = writerPending \ {p}
    /\ UNCHANGED readerCount

\* routesMutex.Unlock()
Unlock(p) ==
    /\ writer = p
    /\ writer' = None
    /\ UNCHANGED <<readerCount, writerPending>>

(***************************************************************************)
(* processGPXData, parseGPX: the record a stored file gives.               *)
(***************************************************************************)
ParsesAsGpx(content) == content \in GpxContents

processGPXData(filename, content) ==
    [filename |-> filename, trackPoints |-> TrackOf(content)]

\* filepath.Glob("data/*.gpx"): the stored names in lexical order
NameOrder == <<"a.gpx", "b.gpx">>

IsStored(dir, n) == dir[n] # None

Glob(dir) == SelectSeq(NameOrder, LAMBDA n : IsStored(dir, n))

(***************************************************************************)
(* main() and loadExistingGPXFiles.                                        *)
(***************************************************************************)
\* files, err := filepath.Glob("data/*.gpx")
MainGlob ==
    /\ pcM = "glob"
    /\ loadQ' = Glob(files)
    /\ pcM' = "load"
    /\ UNCHANGED <<env, funcVars, routes, files, lockVars, uploadVars, requestVars>>

\* one loop iteration up to routesMutex.Lock(): a file that does not parse is
\* skipped
LoadParse ==
    /\ pcM = "load"
    /\ Len(loadQ) > 0
    /\ IF ParsesAsGpx(files[Head(loadQ)])
       THEN /\ pcM' = "loadLock"
            /\ LockCall("main")
            /\ UNCHANGED loadQ
       ELSE /\ loadQ' = Tail(loadQ)
            /\ UNCHANGED <<pcM, lockVars>>
    /\ UNCHANGED <<env, funcVars, routes, files, uploadVars, requestVars>>

LoadLock ==
    /\ pcM = "loadLock"
    /\ LockAcquire("main")
    /\ pcM' = "loadAppend"
    /\ UNCHANGED <<env, funcVars, routes, files, loadQ, uploadVars, requestVars>>

\* routes = append(routes, route)
LoadAppend ==
    /\ pcM = "loadAppend"
    /\ routes' = Append(routes, processGPXData(Head(loadQ), files[Head(loadQ)]))
    /\ pcM' = "loadUnlock"
    /\ UNCHANGED <<env, funcVars, files, lockVars, loadQ, uploadVars, requestVars>>

LoadUnlock ==
    /\ pcM = "loadUnlock"
    /\ Unlock("main")
    /\ loadQ' = Tail(loadQ)
    /\ pcM' = "load"
    /\ UNCHANGED <<env, funcVars, routes, files, uploadVars, requestVars>>

\* the loop is over: http.ListenAndServe
MainServe ==
    /\ pcM = "load"
    /\ Len(loadQ) = 0
    /\ pcM' = "serving"
    /\ UNCHANGED <<env, funcVars, routes, files, lockVars, loadQ, uploadVars, requestVars>>

(***************************************************************************)
(* uploadHandler.                                                          *)
(***************************************************************************)
IdleUpload == [filename |-> None, content |-> None, status |-> 0]

\* the checks before the file is saved: the status they answer, 0 when the
\* request passes them
UploadChecks(method, formOk, hasFile, name) ==
    IF method # "POST" THEN 405
    ELSE IF ~formOk THEN 400
    ELSE IF ~hasFile THEN 400
    ELSE IF name \notin GpxNames THEN 400
    ELSE 0

UploadRequest(method, formOk, hasFile, name, content) ==
    /\ pcM = "serving"
    /\ pcU = "idle"
    /\ env.uploads
    /\ Len(routes) < MaxRoutes
    /\ LET status == UploadChecks(method, formOk, hasFile, name)
       IN  IF status # 0
           THEN /\ pcU' = "respond"
                /\ up' = [IdleUpload EXCEPT !.status = status]
           ELSE /\ pcU' = "save"
                /\ up' = [filename |-> name, content |-> content, status |-> 0]
    /\ UNCHANGED <<env, funcVars, routes, files, lockVars, mainVars, requestVars>>

\* saveFile: os.Create truncates the file, io.Copy fills it
UploadSave(saveOk) ==
    /\ pcU = "save"
    /\ IF saveOk
       THEN /\ files' = [files EXCEPT ![up.filename] = up.content]
            /\ pcU' = "parse"
            /\ UNCHANGED up
       ELSE /\ pcU' = "respond"
            /\ up' = [up EXCEPT !.status = 500]
            /\ UNCHANGED files
    /\ UNCHANGED <<env, funcVars, routes, lockVars, mainVars, requestVars>>

\* variant: the record is appended without routesMutex.Lock()
UploadParseUnlocked ==
    /\ pcU = "parse"
    /\ IF ParsesAsGpx(files[up.filename])
       THEN /\ pcU' = "append"
            /\ UNCHANGED up
       ELSE /\ pcU' = "respond"
            /\ up' = [up EXCEPT !.status = 500]
    /\ UNCHANGED <<env, funcVars, routes, files, lockVars, mainVars, requestVars>>

\* parseGPX, processGPXData, then routesMutex.Lock() is called
UploadParse ==
    /\ pcU = "parse"
    /\ IF ParsesAsGpx(files[up.filename])
       THEN /\ pcU' = "lock"
            /\ LockCall("upload")
            /\ UNCHANGED up
       ELSE /\ pcU' = "respond"
            /\ up' = [up EXCEPT !.status = 500]
            /\ UNCHANGED lockVars
    /\ UNCHANGED <<env, funcVars, routes, files, mainVars, requestVars>>

UploadLock ==
    /\ pcU = "lock"
    /\ LockAcquire("upload")
    /\ pcU' = "append"
    /\ UNCHANGED <<env, funcVars, routes, files, mainVars, up, requestVars>>

\* variant: the record is put in front of the collection
UploadAppendFirst ==
    /\ pcU = "append"
    /\ routes' = <<processGPXData(up.filename, files[up.filename])>> \o routes
    /\ pcU' = "unlock"
    /\ UNCHANGED <<env, funcVars, files, lockVars, mainVars, up, requestVars>>

\* routes = append(routes, route)
UploadAppend ==
    /\ pcU = "append"
    /\ routes' = Append(routes, processGPXData(up.filename, files[up.filename]))
    /\ pcU' = "unlock"
    /\ UNCHANGED <<env, funcVars, files, lockVars, mainVars, up, requestVars>>

UploadUnlock ==
    /\ pcU = "unlock"
    /\ Unlock("upload")
    /\ pcU' = "respond"
    /\ up' = [up EXCEPT !.status = 200]
    /\ UNCHANGED <<env, funcVars, routes, files, mainVars, requestVars>>

\* the response is written and the handler returns
UploadRespond ==
    /\ pcU = "respond"
    /\ pcU' = "idle"
    /\ up' = IdleUpload
    /\ UNCHANGED <<env, funcVars, routes, files, lockVars, mainVars, requestVars>>

(***************************************************************************)
(* suggestHandler and routesHandler.                                       *)
(***************************************************************************)
IdleRequest ==
    [entry |-> None, fn |-> None, minDistance |-> 0, maxDistance |-> 0,
     followStreets |-> FALSE,
     nRoutes |-> 0,            \* len(routes) when the collection was scanned
     box |-> ZeroBox,          \* minLat, maxLat, minLng, maxLng
     perimeter |-> <<>>,       \* the perimeter after step 3
     suggestedRoute |-> NoRoute,
     streetRoute |-> NoRoute, streetDistance |-> 0,
     center |-> <<0, 0>>, offset |-> 0,
     sent |-> <<>>,            \* the waypoints of the routing call in flight
     steps |-> <<>>,           \* the routing calls made: [step, outcome]
     result |-> <<>>, err |-> FALSE, status |-> 0]

\* the function suggestHandler calls
Dispatch(minDistance, followStreets) ==
    IF minDistance > 0 /\ followStreets
    THEN "generateRouteWithMinDistance"
    ELSE "generateSuggestedRoutes"

\* the status suggestHandler answers for what the function returned
SuggestStatus(err) == IF err THEN 500 ELSE 200

\* GET /suggest?minDistance=..&maxDistance=..&followStreets=..
SuggestRequest(method, minDistance, maxDistance, followStreets) ==
    /\ pcM = "serving"
    /\ pcR = "idle"
    /\ IF method # "GET"
       THEN /\ pcR' = "done"
            /\ rq' = [IdleRequest EXCEPT !.entry = "suggestHandler", !.status = 405]
       ELSE /\ pcR' = "rlock"
            /\ rq' = [IdleRequest EXCEPT
                        !.entry = "suggestHandler",
                        !.fn = Dispatch(minDistance, followStreets),
                        !.minDistance = minDistance,
                        !.maxDistance = maxDistance,
                        !.followStreets = followStreets]
    /\ UNCHANGED <<env, funcVars, routes, files, lockVars, mainVars, uploadVars>>

\* generateSuggestedRoutes(min, max, followStreets) called by itself, as
\* TestGenerateSuggestedRoutes does
CallGenerateSuggestedRoutes(minDistance, maxDistance, followStreets) ==
    /\ pcM = "serving"
    /\ pcR = "idle"
    /\ pcR' = "rlock"
    /\ rq' = [IdleRequest EXCEPT
                !.entry = "call",
                !.fn = "generateSuggestedRoutes",
                !.minDistance = minDistance,
                !.maxDistance = maxDistance,
                !.followStreets = followStreets]
    /\ UNCHANGED <<env, funcVars, routes, files, lockVars, mainVars, uploadVars>>

\* generateRouteWithMinDistance(min) called by itself
CallGenerateRouteWithMinDistance(minDistance) ==
    /\ pcM = "serving"
    /\ pcR = "idle"
    /\ pcR' = "rlock"
    /\ rq' = [IdleRequest EXCEPT
                !.entry = "call",
                !.fn = "generateRouteWithMinDistance",
                !.minDistance = minDistance,
                !.followStreets = TRUE]
    /\ UNCHANGED <<env, funcVars, routes, files, lockVars, mainVars, uploadVars>>

\* GET /routes: routesMutex.RLock(), encode the collection, RUnlock
RoutesRequest(method) ==
    /\ pcM = "serving"
    /\ pcR = "idle"
    /\ IF method # "GET"
       THEN /\ pcR' = "done"
            /\ rq' = [IdleRequest EXCEPT !.entry = "routesHandler", !.status = 405]
       ELSE /\ pcR' = "rlock"
            /\ rq' = [IdleRequest EXCEPT !.entry = "routesHandler",
                                         !.fn = "routesHandler"]
    /\ UNCHANGED <<env, funcVars, routes, files, lockVars, mainVars, uploadVars>>

\* routesMutex.RLock() returns, at the top of either function or of
\* routesHandler
RLock ==
    /\ pcR = "rlock"
    /\ CanRLock
    /\ readerCount' = readerCount + 1
    /\ pcR' = "scan"
    /\ UNCHANGED <<env, funcVars, routes, files, writer, writerPending, mainVars, uploadVars, rq>>

\* routesHandler: the collection is encoded under the read lock
RoutesEncode ==
    /\ pcR = "scan"
    /\ rq.fn = "routesHandler"
    /\ readerCount' = readerCount - 1
    /\ pcR' = "done"
    /\ rq' = [rq EXCEPT !.result = routes, !.status = 200]
    /\ UNCHANGED <<env, funcVars, routes, files, writer, writerPending, mainVars, uploadVars>>

\* variant: the suggested route is stored in the collection on return
ReturnStored(q, list, err) ==
    /\ readerCount' = readerCount - 1
    /\ pcR' = "done"
    /\ rq' = [q EXCEPT !.result = list, !.err = err, !.sent = <<>>,
                       !.status = IF q.entry = "suggestHandler"
                                  THEN SuggestStatus(err) ELSE 0]
    /\ routes' = IF Len(list) = 0 THEN routes
                 ELSE Append(routes, [filename |-> "suggested",
                                      trackPoints |-> list[1].points])
    /\ UNCHANGED <<env, funcVars, files, writer, writerPending, mainVars, uploadVars>>

\* the function returns list and err: the deferred RUnlock runs and, under
\* suggestHandler, the response is written
Return(q, list, err) ==
    /\ readerCount' = readerCount - 1
    /\ pcR' = "done"
    /\ rq' = [q EXCEPT !.result = list, !.err = err, !.sent = <<>>,
                       !.status = IF q.entry = "suggestHandler"
                                  THEN SuggestStatus(err) ELSE 0]
    /\ UNCHANGED <<env, funcVars, routes, files, writer, writerPending, mainVars, uploadVars>>

\* a routing call is made with the seed points: the request waits for the
\* answer at position pc
CallService(q, points, pc) ==
    /\ pcR' = pc
    /\ rq' = [q EXCEPT !.sent = Downsample(points)]
    /\ UNCHANGED <<env, funcVars, routes, files, lockVars, mainVars, uploadVars>>

\* the request is over
RequestEnd ==
    /\ pcR = "done"
    /\ pcR' = "idle"
    /\ rq' = IdleRequest
    /\ UNCHANGED <<env, funcVars, routes, files, lockVars, mainVars, uploadVars>>

Logged(q, step, outcome) ==
    [q EXCEPT !.steps = Append(q.steps, [step |-> step, outcome |-> outcome])]

(***************************************************************************)
(* generateSuggestedRoutes.  What the function returns is [list, err].     *)
(***************************************************************************)
\* "If no existing routes, return empty suggestions"
NoRoutesResult == [list |-> <<>>, err |-> FALSE]

\* return []SuggestedRoute{suggestedRoute}, nil
SuggestedResult(route) == [list |-> <<route>>, err |-> FALSE]

\* variant: the perimeter is left as it is
Step3Untransformed(perimeter, minDistance, maxDistance, infZig) == perimeter

\* step 3: at most one transform of the perimeter
Step3(perimeter, minDistance, maxDistance, infZig) ==
    LET distance == calculateRouteDistance(perimeter)
    IN  IF maxDistance > 0 /\ distance > maxDistance
        THEN adjustRouteDistance(perimeter, maxDistance, distance)
        ELSE IF minDistance > 0 /\ distance < minDistance
             THEN extendRoute(perimeter, minDistance, distance, infZig)
             ELSE perimeter

\* the plain-geometry candidate: FollowsStreets: false
Candidate(points) ==
    [points |-> points, distance |-> calculateRouteDistance(points),
     followsStreets |-> FALSE]

\* variant: the error of the conform call is handed to the caller
OnConformErrorPropagated(q) == [list |-> <<>>, err |-> TRUE]

\* variant: what came of the conform call is returned all the same
OnConformErrorStreet(q) == SuggestedResult(q.streetRoute)

\* the conform call failed: the route the request goes on with
OnConformError(q) == SuggestedResult(q.suggestedRoute)

\* the conformed route is not near the explored box: nothing of it is used
OnFarRoute(q) == SuggestedResult(q.suggestedRoute)

\* "Make sure we have a valid distance"
ValidDistance(route) ==
    IF route.distance < SmallDistance
    THEN EstimatedDistance(route.points)
    ELSE route.distance

\* variant: a re-conformed candidate is taken whatever its length
WithinMaxAlways(route, maxDistance) == TRUE

\* a re-conformed candidate of the max-distance ladder is taken
\* (newDistance <= maxDistance*1.1)
WithinMax(route, maxDistance) == 10 * route.distance <= 11 * maxDistance

\* variant: a conformed seed is taken whatever its length
ReachesMinAlways(route, minDistance) == TRUE

\* a conformed seed of the min-distance ladder is taken
ReachesMin(route, minDistance) == route.distance >= minDistance

\* "fall back to mathematical scaling"
ScaledFallback(q) ==
    LET pts == adjustRouteDistance(q.streetRoute.points, q.maxDistance,
                                   q.streetDistance)
    IN  [q.streetRoute EXCEPT !.points = pts,
                              !.distance = calculateRouteDistance(pts)]

\* "fall back to the zigzag method ... this will lose the street-following
\* property"
ZigzagFallback(q, infZig) ==
    LET pts == extendRoute(q.streetRoute.points, q.minDistance,
                           q.streetDistance, infZig)
    IN  [points |-> pts, distance |-> calculateRouteDistance(pts),
         followsStreets |-> FALSE]

InMinBranch(q) == q.minDistance > 0 /\ q.streetDistance < q.minDistance

\* variant: the street route is taken without the second near test
FinalRouteUnchecked(q) ==
    [points |-> q.streetRoute.points, distance |-> q.streetRoute.distance,
     followsStreets |-> TRUE]

\* the route the request ends with, once the ladders are over
FinalRoute(q) ==
    IF InMinBranch(q)
    THEN [points |-> q.streetRoute.points, distance |-> q.streetRoute.distance,
          followsStreets |-> TRUE]
    ELSE IF isRouteNearExistingRoutes(q.streetRoute.points, q.box)
         THEN [points |-> q.streetRoute.points,
               distance |-> q.streetRoute.distance, followsStreets |-> TRUE]
         ELSE q.suggestedRoute

Finish(q, res) == Return(q, res.list, res.err)

Final(q) == Finish(q, SuggestedResult(FinalRoute(q)))

\* the function up to its first routing call
GsrScan(jit, infZig) ==
    /\ pcR = "scan"
    /\ rq.fn = "generateSuggestedRoutes"
    /\ IF Len(routes) = 0
       THEN Finish([rq EXCEPT !.nRoutes = 0], NoRoutesResult)
       ELSE LET box       == SuggestBox(routes)
                perimeter == Step3(Perimeter(box, jit), rq.minDistance,
                                   rq.maxDistance, infZig)
                q         == [rq EXCEPT !.nRoutes = Len(routes),
                                        !.box = box, !.perimeter = perimeter,
                                        !.suggestedRoute = Candidate(perimeter)]
            IN  IF rq.followStreets
                THEN CallService(q, perimeter, "conform")
                ELSE Finish(q, SuggestedResult(q.suggestedRoute))

\* the perimeter scaled about its own centre by num/den
ScaledPerimeter(q, num, den) ==
    [i \in 1..Len(q.perimeter) |-> ScalePoint(q.perimeter[i], q.center, num, den)]

\* the answer to the conform call on the step-3 candidate
GsrConform(resp) ==
    /\ pcR = "conform"
    /\ LET c == getRouteFollowingStreets(resp)
       IN  IF c.err
           THEN Finish(Logged(rq, "conform", "failed"), OnConformError(rq))
           ELSE IF ~isRouteNearExistingRoutes(c.route.points, rq.box)
           THEN Finish(Logged([rq EXCEPT !.streetRoute = c.route], "conform", "far"),
                       OnFarRoute(rq))
           ELSE
             LET sd == ValidDistance(c.route)
                 q  == Logged([rq EXCEPT !.streetRoute = [c.route EXCEPT !.distance = sd],
                                         !.streetDistance = sd],
                              "conform", "ok")
             IN  IF q.maxDistance > 0 /\ sd > q.maxDistance
                 THEN IF Len(q.perimeter) >= 4
                      THEN LET q1 == [q EXCEPT !.center = Centroid(q.perimeter)]
                           IN  CallService(q1,
                                   ScaledPerimeter(q1, 8 * q.maxDistance, 10 * sd),
                                   "max08")
                      ELSE Final([q EXCEPT !.streetRoute = ScaledFallback(q)])
                 ELSE IF q.minDistance > 0 /\ sd < q.minDistance
                      THEN /\ pcR' = "rlock2"
                           /\ rq' = [q EXCEPT !.sent = <<>>]
                           /\ UNCHANGED <<env, funcVars, routes, files, lockVars, mainVars, uploadVars>>
                      ELSE Final(q)

\* max-distance ladder: the answer for the perimeter scaled by 0.8 * ratio
GsrMax08(resp) ==
    /\ pcR = "max08"
    /\ LET c == getRouteFollowingStreets(resp)
       IN  IF ~c.err
           THEN IF WithinMax(c.route, rq.maxDistance)
                THEN Final(Logged([rq EXCEPT !.streetRoute = c.route],
                                  "max08", "accepted"))
                ELSE CallService(Logged(rq, "max08", "rejected"),
                         ScaledPerimeter(rq, 5 * rq.maxDistance, 10 * rq.streetDistance),
                         "max05")
           ELSE Final(Logged([rq EXCEPT !.streetRoute = ScaledFallback(rq)],
                             "max08", "failed"))

\* max-distance ladder: the answer for the perimeter scaled by 0.5 * ratio
GsrMax05(resp) ==
    /\ pcR = "max05"
    /\ LET c == getRouteFollowingStreets(resp)
       IN  IF ~c.err /\ WithinMax(c.route, rq.maxDistance)
           THEN Final(Logged([rq EXCEPT !.streetRoute = c.route], "max05", "accepted"))
           ELSE CallService(Logged(rq, "max05", IF c.err THEN "failed" ELSE "rejected"),
                    RectPoints(rq.center, TenthOffset(rq.maxDistance)),
                    "maxRect")

\* max-distance ladder: the answer for the small square
GsrMaxRect(resp) ==
    /\ pcR = "maxRect"
    /\ LET c == getRouteFollowingStreets(resp)
       IN  IF ~c.err /\ WithinMax(c.route, rq.maxDistance)
           THEN Final(Logged([rq EXCEPT !.streetRoute = c.route], "maxRect", "accepted"))
           ELSE Final(Logged([rq EXCEPT !.streetRoute = ScaledFallback(rq)],
                             "maxRect", IF c.err THEN "failed" ELSE "rejected"))

\* the centre of the min-distance ladder: the mean of all track points, or of
\* the perimeter when there is none
LadderCenter(rs, perimeter) ==
    LET all == AllTrackPoints(rs, 1)
    IN  IF Len(all) = 0 THEN Centroid(perimeter) ELSE Centroid(all)

\* min-distance ladder: routesMutex.RLock() returns, the centre is computed,
\* RUnlock, and the pentagon is sent
GsrCenter ==
    /\ pcR = "rlock2"
    /\ CanRLock
    /\ LET center == LadderCenter(routes, rq.perimeter)
           offset == SqrtOffset(rq.minDistance, 10)
           q      == [rq EXCEPT !.center = center, !.offset = offset]
       IN  CallService(q, PolygonPoints(center, offset, NumPentagon), "minPentagon")

\* min-distance ladder: the answer for the pentagon
GsrMinPentagon(resp) ==
    /\ pcR = "minPentagon"
    /\ LET c == getRouteFollowingStreets(resp)
       IN  IF ~c.err /\ ReachesMin(c.route, rq.minDistance)
           THEN Final(Logged([rq EXCEPT !.streetRoute = c.route],
                             "minPentagon", "accepted"))
           ELSE LET q == Logged([rq EXCEPT !.offset = 2 * rq.offset], "minPentagon",
                                IF c.err THEN "failed" ELSE "rejected")
                IN  CallService(q, PolygonPoints(q.center, q.offset, NumPentagon),
                                "minPentagon2")

\* min-distance ladder: the answer for the pentagon of twice the radius
GsrMinPentagon2(resp) ==
    /\ pcR = "minPentagon2"
    /\ LET c == getRouteFollowingStreets(resp)
       IN  IF ~c.err /\ ReachesMin(c.route, rq.minDistance)
           THEN Final(Logged([rq EXCEPT !.streetRoute = c.route],
                             "minPentagon2", "accepted"))
           ELSE LET q == Logged([rq EXCEPT !.offset = SqrtOffset(rq.minDistance, 2)],
                                "minPentagon2",
                                IF c.err THEN "failed" ELSE "rejected")
                IN  CallService(q, SimplePoints(q.center, q.offset), "minSimple")

\* min-distance ladder: the answer for the 2-point seed
GsrMinSimple(resp) ==
    /\ pcR = "minSimple"
    /\ LET c == getRouteFollowingStreets(resp)
       IN  IF ~c.err /\ ReachesMin(c.route, rq.minDistance)
           THEN Final(Logged([rq EXCEPT !.streetRoute = c.route],
                             "minSimple", "accepted"))
           ELSE LET q == Logged([rq EXCEPT !.offset = SqrtOffset(rq.minDistance, 1)],
                                "minSimple",
                                IF c.err THEN "failed" ELSE "rejected")
                IN  CallService(q, SimplePoints(q.center, q.offset), "minSimpleLarge")

\* min-distance ladder: the answer for the larger 2-point seed
GsrMinSimpleLarge(resp, infZig) ==
    /\ pcR = "minSimpleLarge"
    /\ LET c == getRouteFollowingStreets(resp)
       IN  IF ~c.err /\ ReachesMin(c.route, rq.minDistance)
           THEN Final(Logged([rq EXCEPT !.streetRoute = c.route],
                             "minSimpleLarge", "accepted"))
           ELSE Final(Logged([rq EXCEPT !.streetRoute = ZigzagFallback(rq, infZig)],
                             "minSimpleLarge",
                             IF c.err THEN "failed" ELSE "rejected"))

(***************************************************************************)
(* generateRouteWithMinDistance.                                           *)
(***************************************************************************)
\* the anchor: the centre of the box, or the default location
\* "if minLat == 0 && maxLat == 0"
Anchor(box) ==
    IF box.minLat = 0 /\ box.maxLat = 0
    THEN <<DefaultLat, DefaultLng>>
    ELSE <<(box.minLat + box.maxLat) \div 2, (box.minLng + box.maxLng) \div 2>>

\* return []SuggestedRoute{streetRoute}, nil
StreetResult(route) == [list |-> <<route>>, err |-> FALSE]

\* "return a simple route that doesn't follow streets"
SimpleResult(q) ==
    [list |-> << Candidate(SimplePoints(q.center, q.offset)) >>, err |-> FALSE]

\* the function up to its first routing call
GrmdScan ==
    /\ pcR = "scan"
    /\ rq.fn = "generateRouteWithMinDistance"
    /\ LET box    == MinDistanceBox(routes)
           center == Anchor(box)
           offset == SqrtOffset(rq.minDistance, 2)
           q      == [rq EXCEPT !.nRoutes = Len(routes), !.box = box,
                                !.center = center, !.offset = offset]
       IN  CallService(q, SimplePoints(center, offset), "simple")

\* the answer for the 2-point seed
GrmdSimple(resp) ==
    /\ pcR = "simple"
    /\ LET c == getRouteFollowingStreets(resp)
       IN  IF ~c.err /\ ReachesMin(c.route, rq.minDistance)
           THEN Finish(Logged([rq EXCEPT !.streetRoute = c.route], "simple", "accepted"),
                       StreetResult(c.route))
           ELSE LET q == Logged([rq EXCEPT !.offset = 2 * rq.offset], "simple",
                                IF c.err THEN "failed" ELSE "rejected")
                IN  CallService(q, SimplePoints(q.center, q.offset), "simple2")

\* the answer for the 2-point seed of twice the offset
GrmdSimple2(resp) ==
    /\ pcR = "simple2"
    /\ LET c == getRouteFollowingStreets(resp)
       IN  IF ~c.err /\ ReachesMin(c.route, rq.minDistance)
           THEN Finish(Logged([rq EXCEPT !.streetRoute = c.route], "simple2", "accepted"),
                       StreetResult(c.route))
           ELSE LET q == Logged(rq, "simple2", IF c.err THEN "failed" ELSE "rejected")
                IN  CallService(q, PolygonPoints(q.center, q.offset, NumSquare), "square")

\* the answer for the square
GrmdSquare(resp) ==
    /\ pcR = "square"
    /\ LET c == getRouteFollowingStreets(resp)
       IN  IF ~c.err /\ ReachesMin(c.route, rq.minDistance)
           THEN Finish(Logged([rq EXCEPT !.streetRoute = c.route], "square", "accepted"),
                       StreetResult(c.route))
           ELSE LET q == Logged([rq EXCEPT !.offset = 2 * SqrtOffset(rq.minDistance, 1)],
                                "square", IF c.err THEN "failed" ELSE "rejected")
                IN  CallService(q, SimplePoints(q.center, q.offset), "simpleLarge")

\* the answer for the 2-point seed of the very large offset
GrmdSimpleLarge(resp) ==
    /\ pcR = "simpleLarge"
    /\ LET c == getRouteFollowingStreets(resp)
       IN  IF ~c.err
           THEN Finish(Logged([rq EXCEPT !.streetRoute = c.route],
                              "simpleLarge", "accepted"),
                       StreetResult(c.route))
           ELSE Finish(Logged(rq, "simpleLarge", "failed"), SimpleResult(rq))

(***************************************************************************)
(* The system.                                                             *)
(***************************************************************************)
\* no function is called by itself
IdleDecode ==
    [polyline |-> <<>>, index |-> 0, lat |-> 0, lng |-> 0, result |-> 0,
     shift |-> 0, coordinates |-> <<>>, pc |-> "idle"]

IdleWaypoints == [points |-> <<>>, sent |-> <<>>, pc |-> "idle"]

IdleConform ==
    [points |-> <<>>, sent |-> <<>>, resp |-> None, err |-> FALSE,
     route |-> NoRoute, pc |-> "idle"]

\* no pure function is called by itself
IdleCall == [fn |-> None, pc |-> "idle"]

Init ==
    /\ dec = IdleDecode
    /\ wp = IdleWaypoints
    /\ cf = IdleConform
    /\ pf = IdleCall
    /\ env \in Environments
    /\ routes = <<>>
    /\ files = env.dir
    /\ readerCount = 0
    /\ writer = None
    /\ writerPending = {}
    /\ pcM = "glob"
    /\ loadQ = <<>>
    /\ pcU = "idle"
    /\ up = IdleUpload
    /\ pcR = "idle"
    /\ rq = IdleRequest

Methods == {"GET", "POST"}

\* the answers the routing call in flight may get
Answers == IF Len(rq.sent) = 0 THEN {} ELSE Responses(env.geometries, rq.sent)

Main ==
    \/ MainGlob
    \/ LoadParse
    \/ LoadLock
    \/ LoadAppend
    \/ LoadUnlock
    \/ MainServe

Upload ==
    \/ \E method \in Methods, formOk \in BOOLEAN, hasFile \in BOOLEAN,
          name \in UploadNames, content \in env.contents :
            UploadRequest(method, formOk, hasFile, name, content)
    \/ \E saveOk \in BOOLEAN : UploadSave(saveOk)
    \/ UploadParse
    \/ UploadLock
    \/ UploadAppend
    \/ UploadUnlock
    \/ UploadRespond

Request ==
    \/ \E method \in Methods, minDistance \in MinDistances,
          maxDistance \in MaxDistances, followStreets \in BOOLEAN :
            SuggestRequest(method, minDistance, maxDistance, followStreets)
    \/ \E minDistance \in MinDistances, maxDistance \in MaxDistances,
          followStreets \in BOOLEAN :
            CallGenerateSuggestedRoutes(minDistance, maxDistance, followStreets)
    \/ \E minDistance \in MinDistances : CallGenerateRouteWithMinDistance(minDistance)
    \/ \E method \in Methods : RoutesRequest(method)
    \/ RLock
    \/ RoutesEncode
    \/ RequestEnd

SuggestedRoutes ==
    \/ \E jit \in env.jitters, infZig \in InfZigzags : GsrScan(jit, infZig)
    \/ \E resp \in Answers : GsrConform(resp)
    \/ \E resp \in Answers : GsrMax08(resp)
    \/ \E resp \in Answers : GsrMax05(resp)
    \/ \E resp \in Answers : GsrMaxRect(resp)
    \/ GsrCenter
    \/ \E resp \in Answers : GsrMinPentagon(resp)
    \/ \E resp \in Answers : GsrMinPentagon2(resp)
    \/ \E resp \in Answers : GsrMinSimple(resp)
    \/ \E resp \in Answers, infZig \in InfZigzags :
            GsrMinSimpleLarge(resp, infZig)

RouteWithMinDistance ==
    \/ GrmdScan
    \/ \E resp \in Answers : GrmdSimple(resp)
    \/ \E resp \in Answers : GrmdSimple2(resp)
    \/ \E resp \in Answers : GrmdSquare(resp)
    \/ \E resp \in Answers : GrmdSimpleLarge(resp)

Next == Main \/ Upload \/ Request \/ SuggestedRoutes \/ RouteWithMinDistance

Spec == Init /\ [][Next]_vars

(***************************************************************************)
(* The functions called by themselves, on inputs of their own: the server  *)
(* stays as it is before main() starts.                                    *)
(***************************************************************************)
serverVars == <<env, routes, files, readerCount, writer, writerPending,
                pcM, loadQ, pcU, up, pcR, rq>>

ServerNotStarted ==
    /\ env = CHOOSE e \in QuietEnvironments : e.dir = Dir(None, None)
    /\ routes = <<>>
    /\ files = env.dir
    /\ readerCount = 0
    /\ writer = None
    /\ writerPending = {}
    /\ pcM = "glob"
    /\ loadQ = <<>>
    /\ pcU = "idle"
    /\ up = IdleUpload
    /\ pcR = "idle"
    /\ rq = IdleRequest

(***************************************************************************)
(* decodePolyline.  The string is a sequence of byte values; index counts  *)
(* from 0 as in the code; lat and lng are the integers the code divides by *)
(* 1e5, which is the unit of the model's coordinates.                      *)
(***************************************************************************)
MaxPolyline == 3        \* longest string of the small alphabet

RECURSIVE Pow2(_)
Pow2(n) == IF n = 0 THEN 1 ELSE 2 * Pow2(n - 1)

\* variant: the byte is read without the test
AtEndUntested(d) == FALSE

\* index >= len(polyline): the test before every byte is read
AtEnd(d) == d.index >= Len(d.polyline)

\* b = int(polyline[index]) - 63
ByteAt(d) == d.polyline[d.index + 1] - 63

\* one pass of the inner loop after the test: the byte is read (a read at
\* an index that is not in the string panics), index++,
\* result |= (b & 0x1f) << shift, shift += 5
ReadByte(d) ==
    IF d.index >= Len(d.polyline)
    THEN [d EXCEPT !.pc = "panic"]
    ELSE [d EXCEPT !.index  = d.index + 1,
                   !.result = d.result + (ByteAt(d) % 32) * Pow2(d.shift),
                   !.shift  = d.shift + 5]

\* b < 0x20 for the byte just read: the value is complete
LastChunk(d) == d.polyline[d.index] - 63 < 32

\* variant: the sign bit is dropped and never applied
UnfoldUnsigned(result) == result \div 2

\* the change a result stands for: ^(result >> 1) when result is odd,
\* result >> 1 when it is even
Unfold(result) ==
    IF result % 2 = 1 THEN 0 - (result \div 2) - 1 ELSE result \div 2

\* the inner loop is left: lat += latChange, and the longitude loop starts
LatDone(d) ==
    [d EXCEPT !.lat = d.lat + Unfold(d.result), !.result = 0, !.shift = 0,
              !.pc = "lng"]

\* the inner loop is left: lng += lngChange, and the point is appended
LngDone(d) ==
    LET lng == d.lng + Unfold(d.result)
    IN  [d EXCEPT !.lng = lng, !.result = 0, !.shift = 0,
                  !.coordinates = Append(d.coordinates, <<d.lat, lng>>),
                  !.pc = "outer"]

\* for index < len(polyline)
DecodeOuter ==
    /\ dec.pc = "outer"
    /\ dec' = IF dec.index < Len(dec.polyline)
              THEN [dec EXCEPT !.result = 0, !.shift = 0, !.pc = "lat"]
              ELSE [dec EXCEPT !.pc = "done"]
    /\ UNCHANGED <<serverVars, wp, cf, pf>>

\* one pass of the latitude loop
DecodeLat ==
    /\ dec.pc = "lat"
    /\ dec' = IF AtEnd(dec) THEN LatDone(dec)
              ELSE LET d == ReadByte(dec)
                   IN  IF d.pc = "panic" THEN d
                       ELSE IF LastChunk(d) THEN LatDone(d) ELSE d
    /\ UNCHANGED <<serverVars, wp, cf, pf>>

\* one pass of the longitude loop
DecodeLng ==
    /\ dec.pc = "lng"
    /\ dec' = IF AtEnd(dec) THEN LngDone(dec)
              ELSE LET d == ReadByte(dec)
                   IN  IF d.pc = "panic" THEN d
                       ELSE IF LastChunk(d) THEN LngDone(d) ELSE d
    /\ UNCHANGED <<serverVars, wp, cf, pf>>

\* the strings decoded: " ", "?", "@", "_", "`" in every order up to
\* MaxPolyline bytes, the string of TestDecodePolyline, and that string cut
\* short or followed by the start of another value
Alphabet == {32, 63, 64, 95, 96}

TestPolyline ==
    <<95, 112, 126, 105, 70, 126, 112, 115, 124, 85, 95, 117, 108, 76,
      110, 110, 113, 67, 95, 109, 113, 78, 118, 120, 113, 96, 64>>

Polylines ==
    UNION {[1..n -> Alphabet] : n \in 0..MaxPolyline}
    \cup {TestPolyline,
          SubSeq(TestPolyline, 1, Len(TestPolyline) - 1),
          SubSeq(TestPolyline, 1, 5),
          TestPolyline \o <<95>>,
          TestPolyline \o <<95, 112, 126, 105, 70>>}

DecodeInit ==
    /\ ServerNotStarted
    /\ wp = IdleWaypoints
    /\ cf = IdleConform
    /\ pf = IdleCall
    /\ \E polyline \in Polylines :
          dec = [IdleDecode EXCEPT !.polyline = polyline, !.pc = "outer"]

DecodeNext == DecodeOuter \/ DecodeLat \/ DecodeLng

DecodeSpec == DecodeInit /\ [][DecodeNext]_vars

(***************************************************************************)
(* The downsampling of getRouteFollowingStreets by itself.                 *)
(***************************************************************************)
\* the longest input of the dense range of lengths
MaxPoints == 520

\* "OSRM API has a limit of 500 waypoints"
ServiceLimit == 500

\* lengths far beyond the dense range, where the stride is 10 and 50
LongLengths == {1099, 5099}

InputLengths == (0..MaxPoints) \cup LongLengths

\* a path of n points: all different, or ending where it starts, or standing
\* on one spot
PointsOfShape(shape, n) ==
    [i \in 1..n |->
        CASE shape = "still"               -> <<1, 1>>
          [] shape = "closed" /\ i = n     -> <<1, 1>>
          [] OTHER                         -> <<i, i>>]

PointSequences ==
    {PointsOfShape(shape, n) : shape \in {"open", "closed", "still"},
                               n \in InputLengths}

\* the function from its entry to the point list it builds the URL from
SampleWaypoints ==
    /\ wp.pc = "entry"
    /\ wp' = [wp EXCEPT !.sent = Downsample(wp.points), !.pc = "url"]
    /\ UNCHANGED <<serverVars, dec, cf, pf>>

DownsampleInit ==
    /\ ServerNotStarted
    /\ dec = IdleDecode
    /\ cf = IdleConform
    /\ pf = IdleCall
    /\ \E points \in PointSequences :
          wp = [IdleWaypoints EXCEPT !.points = points, !.pc = "entry"]

DownsampleNext == SampleWaypoints

DownsampleSpec == DownsampleInit /\ [][DownsampleNext]_vars

(***************************************************************************)
(* getRouteFollowingStreets by itself: the points it is called with, the   *)
(* waypoints it sends, the answer it gets and what it returns.             *)
(***************************************************************************)
\* HTTP status codes the service may answer with
Statuses == {200, 404, 500}

\* resp.StatusCode == http.StatusOK
StatusOK(resp) == resp.status = 200

\* the seeds the callers hand over: a 2-point segment, a pentagon, a square,
\* a track
ConformInputs ==
    { SimplePoints(<<DefaultLat, DefaultLng>>, SqrtOffset(3000, 2)),
      PolygonPoints(<<DefaultLat, DefaultLng>>, SqrtOffset(3000, 10), NumPentagon),
      RectPoints(<<2000, 2500>>, TenthOffset(5000)),
      TrackOf("city") }

\* every answer to the waypoints w: the failures, and every status code
\* with every body that has a route
ConformResponses(w) ==
    FailedResponses
    \cup { OkResponse(Geometry(k, w), d, status) :
              k \in {"same", "thereAndBack", "far", "short", "tiny", "single",
                     "empty"},
              d \in ReportedDistances, status \in Statuses }

\* the function up to http.Get
ConformSend ==
    /\ cf.pc = "entry"
    /\ cf' = [cf EXCEPT !.sent = Downsample(cf.points), !.pc = "get"]
    /\ UNCHANGED <<serverVars, dec, wp, pf>>

\* the answer arrives and the function returns
ConformAnswer(resp) ==
    /\ cf.pc = "get"
    /\ LET c == getRouteFollowingStreets(resp)
       IN  cf' = [cf EXCEPT !.resp = resp, !.err = c.err, !.route = c.route,
                            !.pc = "returned"]
    /\ UNCHANGED <<serverVars, dec, wp, pf>>

ConformInit ==
    /\ ServerNotStarted
    /\ dec = IdleDecode
    /\ wp = IdleWaypoints
    /\ pf = IdleCall
    /\ \E points \in ConformInputs :
          cf = [IdleConform EXCEPT !.points = points, !.pc = "entry"]

ConformNext ==
    \/ ConformSend
    \/ /\ cf.pc = "get"
       /\ \E resp \in ConformResponses(cf.sent) : ConformAnswer(resp)

ConformSpec == ConformInit /\ [][ConformNext]_vars

(***************************************************************************)
(* isRouteNearExistingRoutes by itself.                                    *)
(***************************************************************************)
\* the longest point list of the dense range
MaxNearPoints == 3

\* the box of TestIsRouteNearExistingRoutes, a box of a city, and the box
\* of no track points
NearBoxes ==
    { [minLat |-> 5250000, maxLat |-> 5255000, minLng |-> 1335000, maxLng |-> 1345000],
      [minLat |-> 1000, maxLat |-> 3000, minLng |-> 1000, maxLng |-> 4000],
      ZeroBox }

\* points on the corners of the padded city box, one unit outside them,
\* inside, and far away
NearPoints ==
    { <<0, -500>>, <<-1, -500>>, <<2000, 2000>>, <<4000, 5500>>, <<4000, 5501>>,
      <<0, 0>>, <<50000, 50000>> }

\* the routes of TestIsRouteNearExistingRoutes
NearTestRoutes ==
    { << <<5252000, 1340000>>, <<5253000, 1342000>> >>,
      << <<5352000, 1440000>>, <<5353000, 1442000>> >>,
      << <<5252000, 1340000>>, <<5253000, 1342000>>, <<5300000, 1400000>> >>,
      << <<5252000, 1340000>>, <<5300000, 1400000>>, <<5310000, 1410000>>,
         <<5320000, 1420000>> >> }

NearRoutes ==
    UNION {[1..n -> NearPoints] : n \in 0..MaxNearPoints} \cup NearTestRoutes

NearCall ==
    /\ pf.pc = "entry"
    /\ pf.fn = "isRouteNearExistingRoutes"
    /\ pf' = [pf EXCEPT !.result = isRouteNearExistingRoutes(pf.points, pf.box),
                        !.pc = "returned"]
    /\ UNCHANGED <<serverVars, dec, wp, cf>>

NearInit ==
    /\ ServerNotStarted
    /\ dec = IdleDecode
    /\ wp = IdleWaypoints
    /\ cf = IdleConform
    /\ \E points \in NearRoutes, box \in NearBoxes :
          pf = [fn |-> "isRouteNearExistingRoutes", points |-> points,
                box |-> box, result |-> FALSE, pc |-> "entry"]

NearNext == NearCall

NearSpec == NearInit /\ [][NearNext]_vars

(***************************************************************************)
(* adjustRouteDistance by itself.                                          *)
(***************************************************************************)
\* the longest open route of the dense range
MaxAdjustPoints == 3

AdjustPoints == { <<1000, 1000>>, <<3000, 2000>>, <<2000, 4001>> }

\* the square of TestAdjustRouteDistance
AdjustTestRoute ==
    << <<5252000, 1340000>>, <<5252000, 1345000>>, <<5256000, 1345000>>,
       <<5256000, 1340000>>, <<5252000, 1340000>> >>

OpenRoutes == UNION {[1..n -> AdjustPoints] : n \in 0..MaxAdjustPoints}

\* every open route, every open route closed by its first point, and the
\* test's square
AdjustRoutes ==
    OpenRoutes
    \cup {Append(r, r[1]) : r \in OpenRoutes \ {<<>>}}
    \cup {AdjustTestRoute}

\* scale factors num/den: the test's 0.5, factors below and above 1, and 0
ScaleFactors == { <<1, 2>>, <<4, 5>>, <<5000, 7321>>, <<1, 1>>, <<3, 2>>, <<0, 1>> }

AdjustCall ==
    /\ pf.pc = "entry"
    /\ pf.fn = "adjustRouteDistance"
    /\ pf' = [pf EXCEPT !.result = adjustRouteDistance(pf.points, pf.num, pf.den),
                        !.pc = "returned"]
    /\ UNCHANGED <<serverVars, dec, wp, cf>>

AdjustInit ==
    /\ ServerNotStarted
    /\ dec = IdleDecode
    /\ wp = IdleWaypoints
    /\ cf = IdleConform
    /\ \E points \in AdjustRoutes, f \in ScaleFactors :
          pf = [fn |-> "adjustRouteDistance", points |-> points,
                num |-> f[1], den |-> f[2], result |-> <<>>, pc |-> "entry"]

AdjustNext == AdjustCall

AdjustSpec == AdjustInit /\ [][AdjustNext]_vars

(***************************************************************************)
(* extendRoute by itself.                                                  *)
(***************************************************************************)
\* the longest route of the dense range
MaxExtendPoints == 4

ExtendPoints == { <<1000, 1000>>, <<3000, 2000>>, <<2000, 4000>> }

\* the route of TestExtendRoute
ExtendTestRoute ==
    << <<5252000, 1340000>>, <<5253000, 1341000>>, <<5254000, 1342000>> >>

ExtendRoutes ==
    UNION {[1..n -> ExtendPoints] : n \in 0..MaxExtendPoints}
    \cup {ExtendTestRoute}

\* extension factors num/den: the test's 1, 2 and 3, factors between the
\* integers, a factor below 1, and +Inf (den = 0)
ExtensionFactors ==
    { <<1, 1>>, <<2, 1>>, <<3, 1>>, <<3, 2>>, <<27, 10>>, <<7, 2>>, <<1, 2>>,
      <<1, 0>> }

ExtendCall ==
    /\ pf.pc = "entry"
    /\ pf.fn = "extendRoute"
    /\ pf' = [pf EXCEPT !.result = extendRoute(pf.points, pf.num, pf.den, pf.infZig),
                        !.pc = "returned"]
    /\ UNCHANGED <<serverVars, dec, wp, cf>>

ExtendInit ==
    /\ ServerNotStarted
    /\ dec = IdleDecode
    /\ wp = IdleWaypoints
    /\ cf = IdleConform
    /\ \E points \in ExtendRoutes, f \in ExtensionFactors, infZig \in InfZigzags :
          pf = [fn |-> "extendRoute", points |-> points,
                num |-> f[1], den |-> f[2],
                infZig |-> IF f[2] = 0 THEN infZig ELSE 0,
                result |-> <<>>, pc |-> "entry"]

ExtendNext == ExtendCall

ExtendSpec == ExtendInit /\ [][ExtendNext]_vars

(***************************************************************************)
(* The jittered perimeter of generateSuggestedRoutes by itself.            *)
(***************************************************************************)
\* boxes of track collections: a city, the box of TestIsRouteNearExistingRoutes,
\* a box around the origin, the box of a single point, the box of no point
PerimeterBoxes ==
    { [minLat |-> 1000, maxLat |-> 3000, minLng |-> 1000, maxLng |-> 4000],
      [minLat |-> 5250000, maxLat |-> 5255000, minLng |-> 1335000, maxLng |-> 1345000],
      [minLat |-> -1000, maxLat |-> 1000, minLng |-> -3000, maxLng |-> 0],
      PointBox(<<2000, 2000>>),
      ZeroBox }

\* rand.Float64()*0.1 - 0.05 in 1/1000: the least value, 0, and the greatest
JitterValues == {0 - JitterPerMille, 0, JitterPerMille - 1}

Jitters == [1..4 -> JitterValues]

PerimeterCall ==
    /\ pf.pc = "entry"
    /\ pf.fn = "perimeter"
    /\ pf' = [pf EXCEPT !.result = Perimeter(pf.box, pf.jit), !.pc = "returned"]
    /\ UNCHANGED <<serverVars, dec, wp, cf>>

PerimeterInit ==
    /\ ServerNotStarted
    /\ dec = IdleDecode
    /\ wp = IdleWaypoints
    /\ cf = IdleConform
    /\ \E box \in PerimeterBoxes, jit \in Jitters :
          pf = [fn |-> "perimeter", box |-> box, jit |-> jit,
                result |-> <<>>, pc |-> "entry"]

PerimeterNext == PerimeterCall

PerimeterSpec == PerimeterInit /\ [][PerimeterNext]_vars

(***************************************************************************)
(* The anchor of generateRouteWithMinDistance by itself: the scan of the   *)
(* collection and the choice of the centre.                                *)
(***************************************************************************)
\* tracks: without points, in a city, along the equator, one point at the
\* origin, across the equator, south of it
AnchorTracks ==
    { <<>>,
      << <<1000, 1000>>, <<3000, 2000>>, <<2000, 4000>> >>,
      << <<0, 1000>>, <<0, 3000>> >>,
      << <<0, 0>> >>,
      << <<-1000, 500>>, <<1000, 700>> >>,
      << <<-3000, -2000>>, <<-1000, -4000>> >> }

MaxAnchorTracks == 2

AnchorCollections ==
    UNION { [1..n -> {[filename |-> "a.gpx", trackPoints |-> t] : t \in AnchorTracks}] :
            n \in 0..MaxAnchorTracks }

\* the loop over the collection
AnchorScan ==
    /\ pf.pc = "entry"
    /\ pf.fn = "anchor"
    /\ pf' = [pf EXCEPT !.box = MinDistanceBox(pf.routes), !.pc = "scanned"]
    /\ UNCHANGED <<serverVars, dec, wp, cf>>

\* the centre the seeds are laid around
AnchorChoose ==
    /\ pf.pc = "scanned"
    /\ pf.fn = "anchor"
    /\ pf' = [pf EXCEPT !.center = Anchor(pf.box), !.pc = "returned"]
    /\ UNCHANGED <<serverVars, dec, wp, cf>>

AnchorInit ==
    /\ ServerNotStarted
    /\ dec = IdleDecode
    /\ wp = IdleWaypoints
    /\ cf = IdleConform
    /\ \E rs \in AnchorCollections :
          pf = [fn |-> "anchor", routes |-> rs, box |-> ZeroBox,
                center |-> <<0, 0>>, pc |-> "entry"]

AnchorNext == AnchorScan \/ AnchorChoose

AnchorSpec == AnchorInit /\ [][AnchorNext]_vars

(***************************************************************************)
(* Vocabulary of the properties.                                           *)
(***************************************************************************)
Gsr == "generateSuggestedRoutes"
Grmd == "generateRouteWithMinDistance"

\* the request is one for suggestions, in either function
Suggesting == rq.fn \in {Gsr, Grmd}

\* positions at which the request waits for the routing service to answer
CallPositions ==
    {"conform", "max08", "max05", "maxRect",
     "minPentagon", "minPentagon2", "minSimple", "minSimpleLarge",
     "simple", "simple2", "square", "simpleLarge"}

CallInFlight == pcR \in CallPositions

\* routing calls the request has made so far
CallsMade == Len(rq.steps) + (IF CallInFlight THEN 1 ELSE 0)

Returned == pcR = "done" /\ Suggesting

StepNames == {rq.steps[i].step : i \in 1..Len(rq.steps)}

Failed(i) == Len(rq.steps) >= i /\ rq.steps[i].outcome = "failed"

AllFailed == \A i \in 1..Len(rq.steps) : rq.steps[i].outcome = "failed"

(***************************************************************************)
(* C1.                                                                     *)
(***************************************************************************)
\* C1: a suggestion request never returns an error: whatever the request,
\* the collection and the routing service do, generateSuggestedRoutes and
\* generateRouteWithMinDistance return a list with a nil error, and
\* suggestHandler never answers 500.
C1_NeverAnError ==
    Suggesting => /\ rq.err = FALSE
                  /\ rq.status # 500
                  /\ (pcR = "done" /\ rq.entry = "suggestHandler" => rq.status = 200)

\* every routing call of a request through suggestHandler failed in
\* generateRouteWithMinDistance, and the answer is 200
C1_Witness ==
    /\ Returned
    /\ rq.entry = "suggestHandler"
    /\ rq.fn = Grmd
    /\ Len(rq.steps) = 4
    /\ AllFailed
    /\ rq.status = 200
    /\ Len(rq.result) = 1

(***************************************************************************)
(* C2.                                                                     *)
(***************************************************************************)
\* the request waits for routesMutex.RLock() behind a writer that waits for
\* the read lock the request itself holds: neither can ever go on
WaitsOnItself ==
    /\ pcR = "rlock2"
    /\ readerCount > 0
    /\ writer = None
    /\ writerPending # {}

\* C2: every suggestion request terminates after a bounded number of routing
\* calls: at most 5 in generateSuggestedRoutes, at most 4 in
\* generateRouteWithMinDistance, no ladder step twice, and a request is
\* never stuck for good before it returns.
C2_BoundedTermination ==
    Suggesting =>
        /\ (rq.fn = Gsr => CallsMade <= 5)
        /\ (rq.fn = Grmd => CallsMade <= 4)
        /\ Cardinality(StepNames) = Len(rq.steps)
        /\ ~WaitsOnItself

\* the counts of C2 alone: they hold in every state
CallsBounded ==
    Suggesting =>
        /\ (rq.fn = Gsr => CallsMade <= 5)
        /\ (rq.fn = Grmd => CallsMade <= 4)
        /\ Cardinality(StepNames) = Len(rq.steps)

(***************************************************************************)
(* C3.                                                                     *)
(***************************************************************************)
\* C3: no routing call is in flight while the request holds routesMutex:
\* the read lock is released before the first routing call.
C3_NoCallUnderLock == CallInFlight => readerCount = 0

(***************************************************************************)
(* C4.                                                                     *)
(***************************************************************************)
\* the writer is in its append, between Lock() and Unlock()
WriterAppending ==
    /\ (writer = "upload" => pcU \in {"append", "unlock"})
    /\ (writer = "main" => pcM \in {"loadAppend", "loadUnlock"})
    /\ (pcU \in {"save", "parse"} => writer # "upload")

\* no reader holds the lock or scans the collection while a writer holds it
NoReaderWhileWriting ==
    writer # None => readerCount = 0 /\ pcR \notin ({"scan"} \cup CallPositions)

\* C4: every append to the collection is made holding the exclusive lock,
\* the exclusive lock is held only for the append (never while the file is
\* saved or parsed), and no reader scans the collection while a writer holds
\* the lock.
C4_ExclusiveAppend ==
    [][ /\ (routes' # routes =>
              /\ writer # None /\ writer' = writer
              /\ Len(routes') = Len(routes) + 1
              /\ SubSeq(routes', 1, Len(routes)) = routes)
        /\ WriterAppending /\ WriterAppending'
        /\ NoReaderWhileWriting /\ NoReaderWhileWriting' ]_vars

\* an upload has appended its record under the lock while a request waits
\* for the read lock
C4_Witness ==
    /\ writer = "upload"
    /\ pcU = "unlock"
    /\ Len(routes) = 1
    /\ pcR = "rlock"
    /\ readerCount = 0

(***************************************************************************)
(* C5.                                                                     *)
(***************************************************************************)
\* C5: with an empty collection a suggestion request returns a route, for
\* every min, max and followStreets: the list it returns is not empty and
\* no error comes with it.
C5_EmptyCollectionAnswered ==
    Returned /\ rq.nRoutes = 0 => Len(rq.result) >= 1 /\ rq.err = FALSE

\* generateRouteWithMinDistance does anchor on the default location
GrmdAnchorsOnDefault ==
    Returned /\ rq.fn = Grmd /\ rq.nRoutes = 0 =>
        /\ rq.center = <<DefaultLat, DefaultLng>>
        /\ Len(rq.result) = 1

(***************************************************************************)
(* C6.                                                                     *)
(***************************************************************************)
\* the candidates step 3 can give for the box the request explored
Step3Candidates ==
    {Candidate(Step3(Perimeter(rq.box, jit), rq.minDistance, rq.maxDistance, infZig)) :
        jit \in env.jitters, infZig \in InfZigzags}

\* C6: with followStreets false the request makes no routing call and
\* returns the plain-geometry candidate of step 3, followsStreets = false.
C6_PlainCandidate ==
    Suggesting /\ ~rq.followStreets =>
        /\ CallsMade = 0
        /\ (pcR = "done" =>
              /\ Len(rq.result) = 1
              /\ rq.result[1] \in Step3Candidates
              /\ rq.result[1].followsStreets = FALSE)

\* C6 holds for every collection that is not empty
PlainCandidateOfTracks ==
    Suggesting /\ ~rq.followStreets =>
        /\ CallsMade = 0
        /\ (pcR = "done" /\ rq.nRoutes > 0 =>
              /\ Len(rq.result) = 1
              /\ rq.result[1] \in Step3Candidates
              /\ rq.result[1].followsStreets = FALSE)

Consistent(q) == q.minDistance = 0 \/ q.maxDistance = 0 \/ q.minDistance <= q.maxDistance

\* C8: with a collection that is not empty and followStreets false exactly
\* one route is returned, and when max is set (min <= max when both are)
\* its distance is at most max plus 1%, also when step 3 lengthened the
\* candidate to reach min.
C8_PlainWithinMax ==
    Returned /\ rq.fn = Gsr /\ ~rq.followStreets /\ rq.nRoutes > 0 =>
        /\ Len(rq.result) = 1
        /\ (rq.maxDistance > 0 /\ Consistent(rq) =>
               100 * rq.result[1].distance <= 101 * rq.maxDistance)

\* C8 holds for the requests that set no min
PlainWithinMaxWithoutMin ==
    Returned /\ rq.fn = Gsr /\ ~rq.followStreets /\ rq.nRoutes > 0 =>
        /\ Len(rq.result) = 1
        /\ (rq.maxDistance > 0 /\ rq.minDistance = 0 =>
               100 * rq.result[1].distance <= 101 * rq.maxDistance)

(***************************************************************************)
(* C9.                                                                     *)
(***************************************************************************)
\* every attempt of the min-distance ladder fell short or failed, and the
\* route was lengthened by extendRoute
ZigzagExtended ==
    /\ rq.fn = Gsr
    /\ Len(rq.steps) = 5
    /\ rq.steps[5].step = "minSimpleLarge"
    /\ rq.steps[5].outcome # "accepted"

\* C9: when every attempt of the min-distance ladder falls short and the
\* route is lengthened by zigzags, the route the request returns has
\* followsStreets = false.
C9_ZigzagNotStreets ==
    Returned /\ ZigzagExtended =>
        Len(rq.result) = 1 /\ rq.result[1].followsStreets = FALSE

(***************************************************************************)
(* C10.                                                                    *)
(***************************************************************************)
\* at least half of the points are in the box widened by half of its span
\* on every side
HalfInsideWidened(points, box) ==
    LET latPad == (box.maxLat - box.minLat) \div 2
        lngPad == (box.maxLng - box.minLng) \div 2
        inside == {i \in 1..Len(points) :
                     /\ box.minLat - latPad <= points[i][1]
                     /\ points[i][1] <= box.maxLat + latPad
                     /\ box.minLng - lngPad <= points[i][2]
                     /\ points[i][2] <= box.maxLng + lngPad}
    IN  2 * Cardinality(inside) >= Len(points)

\* the conform call succeeded and the request did not enter the
\* min-distance ladder
OutsideMinBranch ==
    /\ rq.fn = Gsr
    /\ rq.followStreets
    /\ Len(rq.steps) >= 1
    /\ rq.steps[1].outcome \in {"ok", "far"}
    /\ ~(rq.steps[1].outcome = "ok" /\ rq.minDistance > 0
         /\ rq.streetDistance < rq.minDistance)

\* C10: outside the min-distance branch a route returned with
\* followsStreets = true has at least 50% of its points in the explored box
\* widened by 50% on every side, and when the conformed route (after the
\* max-distance retries) fails that test the step-3 candidate is returned.
C10_NearOrCandidate ==
    Returned /\ OutsideMinBranch =>
        /\ Len(rq.result) = 1
        /\ (rq.result[1].followsStreets =>
               HalfInsideWidened(rq.result[1].points, rq.box))
        /\ (~HalfInsideWidened(rq.streetRoute.points, rq.box) =>
               rq.result = <<Candidate(rq.perimeter)>>)

\* a route of the max-distance ladder was taken for its length, is far from
\* the explored box, and the candidate was returned in its place
C10_Witness ==
    /\ Returned /\ OutsideMinBranch
    /\ Len(rq.steps) >= 2
    /\ rq.steps[Len(rq.steps)].outcome = "accepted"
    /\ Len(rq.streetRoute.points) > 0
    /\ ~HalfInsideWidened(rq.streetRoute.points, rq.box)
    /\ rq.result = <<Candidate(rq.perimeter)>>

\* a conformed route near the explored box was returned as street route
NearRouteReturned ==
    /\ Returned /\ OutsideMinBranch
    /\ rq.result[1].followsStreets
    /\ HalfInsideWidened(rq.result[1].points, rq.box)

(***************************************************************************)
(* C11.                                                                    *)
(***************************************************************************)
\* the conform call on the step-3 candidate succeeded with a route shorter
\* than the minimum that is set
ConformedBelowMin ==
    /\ rq.fn = Gsr
    /\ rq.followStreets
    /\ rq.minDistance > 0
    /\ Len(rq.steps) >= 1
    /\ \/ rq.steps[1].outcome = "ok" /\ rq.streetDistance < rq.minDistance
       \/ rq.steps[1].outcome = "far" /\ rq.streetRoute.distance < rq.minDistance

MinLadderSteps == {"minPentagon", "minPentagon2", "minSimple", "minSimpleLarge"}

\* C11: whenever the conform call on the step-3 candidate succeeds with a
\* length below the minimum, the min-distance ladder is run and its result
\* is returned without any proximity check, however many of the conformed
\* points lie outside the padded explored box.
C11_MinLadderUnchecked ==
    Returned /\ ConformedBelowMin =>
        /\ Len(rq.steps) >= 2
        /\ rq.steps[2].step \in MinLadderSteps
        /\ Len(rq.result) = 1
        /\ rq.result[1].points = rq.streetRoute.points
        /\ rq.result[1].distance = rq.streetRoute.distance

\* C11 holds when the first conformed route passes the near test: the
\* ladder's result is returned whether or not it is near the box
MinLadderOfNearRoute ==
    Returned /\ ConformedBelowMin /\ rq.steps[1].outcome = "ok" =>
        /\ Len(rq.steps) >= 2
        /\ rq.steps[2].step \in MinLadderSteps
        /\ Len(rq.result) = 1
        /\ rq.result[1].points = rq.streetRoute.points
        /\ rq.result[1].distance = rq.streetRoute.distance

\* a route of the ladder far from the explored box was returned
FarLadderRouteReturned ==
    /\ Returned /\ ConformedBelowMin /\ rq.steps[1].outcome = "ok"
    /\ rq.steps[Len(rq.steps)].outcome = "accepted"
    /\ ~HalfInsideWidened(rq.result[1].points, rq.box)

(***************************************************************************)
(* C12.                                                                    *)
(***************************************************************************)
\* C12: for every route a suggestion request returns, the reported distance
\* equals the pairwise great-circle path length of the returned points; it is
\* never the figure reported by the routing service and never an estimate
\* unrelated to the points.
C12_DistanceIsPathLength ==
    Returned =>
        \A i \in 1..Len(rq.result) :
            rq.result[i].distance = calculateRouteDistance(rq.result[i].points)

\* what holds: the distance is the path length unless the path length is
\* below the small-distance threshold
DistanceIsPathLengthUnlessSmall ==
    Returned =>
        \A i \in 1..Len(rq.result) :
            \/ rq.result[i].distance = calculateRouteDistance(rq.result[i].points)
            \/ calculateRouteDistance(rq.result[i].points) < SmallDistance

\* a route was returned with the length the service reported for it
ReportedDistanceReturned ==
    /\ Returned
    /\ Len(rq.result) = 1
    /\ rq.result[1].followsStreets
    /\ rq.result[1].distance \in ReportedDistances \ {0}
    /\ calculateRouteDistance(rq.result[1].points) = 0

(***************************************************************************)
(* C13.                                                                    *)
(***************************************************************************)
\* C13: no returned route has fewer than 2 points, whatever the routing
\* service answers (an Ok answer whose geometry decodes to 0 or 1 point
\* included): every route in a suggestion result has at least 2 points.
C13_AtLeastTwoPoints ==
    Returned =>
        \A i \in 1..Len(rq.result) : Len(rq.result[i].points) >= 2

\* what holds: a route that does not come from the routing service has at
\* least 2 points
PlainAtLeastTwoPoints ==
    Returned =>
        \A i \in 1..Len(rq.result) :
            ~rq.result[i].followsStreets => Len(rq.result[i].points) >= 2

\* a conformed route of fewer than 2 points was returned
ShortGeometryReturned ==
    /\ Returned
    /\ Len(rq.result) = 1
    /\ rq.result[1].followsStreets
    /\ Len(rq.result[1].points) < 2

(***************************************************************************)
(* C14.                                                                    *)
(***************************************************************************)
\* the first point of the route is its last point
Closed(points) == Len(points) >= 1 /\ points[1] = points[Len(points)]

\* C14 as stated: every route a suggestion request returns is a closed loop,
\* whichever ladder step or fallback produced it
AllReturnedClosed ==
    Returned => \A i \in 1..Len(rq.result) : Closed(rq.result[i].points)

\* C14: every plain-geometry route that generateSuggestedRoutes returns (the
\* perimeter candidate, shrunk or zigzag-extended or neither) is a closed
\* loop: its first point equals its last point.
C14_PlainCandidateClosed ==
    Returned /\ rq.fn = Gsr =>
        \A i \in 1..Len(rq.result) :
            ~rq.result[i].followsStreets => Closed(rq.result[i].points)

\* a zigzag-extended plain candidate was returned
C14_Witness ==
    /\ Returned /\ rq.fn = Gsr
    /\ Len(rq.result) = 1
    /\ ~rq.result[1].followsStreets
    /\ Len(rq.result[1].points) > 5
    /\ Closed(rq.result[1].points)

\* the 2-point route of generateRouteWithMinDistance was returned: it is open
OpenSimpleRouteReturned ==
    /\ Returned /\ rq.fn = Grmd
    /\ Len(rq.result) = 1
    /\ ~rq.result[1].followsStreets
    /\ Len(rq.result[1].points) = 2
    /\ ~Closed(rq.result[1].points)

(***************************************************************************)
(* C15, C16.                                                               *)
(***************************************************************************)
WaypointsBuilt == wp.pc = "url"

\* C15: for every input point sequence, of any length, the number of
\* waypoints sent to the routing service is at most 100.
C15_AtMostHundred == WaypointsBuilt => Len(wp.sent) <= MaxWaypoints

\* what holds: fewer than twice as many
BelowTwoHundred == WaypointsBuilt => Len(wp.sent) < 2 * MaxWaypoints

\* an input of more than 100 points was sent whole
LongInputSentWhole ==
    /\ WaypointsBuilt
    /\ Len(wp.points) > MaxWaypoints
    /\ wp.sent = wp.points

\* C16: for every input point sequence, of any length, the number of
\* waypoints sent to the routing service never exceeds the service's limit
\* of 500.
C16_WithinServiceLimit == WaypointsBuilt => Len(wp.sent) <= ServiceLimit

\* an input longer than the service's limit was sampled and sent
C16_Witness ==
    /\ WaypointsBuilt
    /\ Len(wp.points) > ServiceLimit
    /\ Len(wp.sent) > 0
    /\ Len(wp.sent) <= ServiceLimit
    /\ wp.sent[1] = wp.points[1]
    /\ wp.sent[Len(wp.sent)] = wp.points[Len(wp.points)]

(***************************************************************************)
(* C17.                                                                    *)
(***************************************************************************)
ConformReturned == cf.pc = "returned"

\* C17: getRouteFollowingStreets reports failure, and returns no route, when
\* the transport fails, when the service answers with a non-success HTTP
\* status code (whatever the body contains), and when the response has zero
\* routes.
C17_FailureReported ==
    ConformReturned
    /\ (~cf.resp.transport \/ ~StatusOK(cf.resp) \/ Len(cf.resp.routes) = 0)
    => cf.err /\ cf.route = NoRoute

\* what holds: failure on a transport failure, on a body that does not
\* parse, on a code other than "Ok" and on zero routes
FailureOfBody ==
    ConformReturned
    /\ (~cf.resp.transport \/ ~cf.resp.json \/ cf.resp.code # "Ok"
        \/ Len(cf.resp.routes) = 0)
    => cf.err /\ cf.route = NoRoute

\* an answer of status 500 was returned as a route
ServerErrorReturnedAsRoute ==
    /\ ConformReturned
    /\ cf.resp.status = 500
    /\ ~cf.err
    /\ cf.route.followsStreets
    /\ Len(cf.route.points) >= 2

(***************************************************************************)
(* C21.                                                                    *)
(***************************************************************************)
NearReturned == pf.fn = "isRouteNearExistingRoutes" /\ pf.pc = "returned"

\* C21: isRouteNearExistingRoutes(points, box) returns true exactly when at
\* least half of the points (2 * inside >= total, bounds inclusive) lie
\* inside the box widened by 50% of its span on each side, and false
\* otherwise, for every point list, the empty one included.
C21_HalfInside ==
    NearReturned => (pf.result <=> HalfInsideWidened(pf.points, pf.box))

\* what holds: the same for every list that has a point, and false for the
\* empty list
HalfInsideOfNonEmpty ==
    NearReturned =>
        (pf.result <=> Len(pf.points) > 0 /\ HalfInsideWidened(pf.points, pf.box))

\* exactly half of the points are inside, one of them on a corner of the
\* widened box, and the answer is true
HalfOnTheBoundaryIsNear ==
    /\ NearReturned
    /\ Len(pf.points) = 2
    /\ pf.box.minLat = 1000
    /\ pf.points[1] = <<0, -500>>
    /\ pf.points[2] = <<-1, -500>>
    /\ pf.result

(***************************************************************************)
(* C22.                                                                    *)
(***************************************************************************)
AdjustReturned == pf.fn = "adjustRouteDistance" /\ pf.pc = "returned"

\* C22: adjustRouteDistance preserves the point count for every input and
\* scale factor, and preserves loop closure: if the first and last input
\* points are equal, the first and last output points are equal.
C22_CountAndClosureKept ==
    AdjustReturned =>
        /\ Len(pf.result) = Len(pf.points)
        /\ Len(pf.points) > 0 /\ pf.points[1] = pf.points[Len(pf.points)]
           => pf.result[1] = pf.result[Len(pf.result)]

\* a closed route of several points was shrunk: its points moved and it is
\* still closed
C22_Witness ==
    /\ AdjustReturned
    /\ Len(pf.points) >= 4
    /\ pf.points[1] = pf.points[Len(pf.points)]
    /\ pf.points[1] # pf.points[2]
    /\ pf.num < pf.den
    /\ pf.result[1] # pf.points[1]
    /\ pf.result[1] = pf.result[Len(pf.result)]
    /\ Len(pf.result) = Len(pf.points)

(***************************************************************************)
(* C23.                                                                    *)
(***************************************************************************)
ExtendReturned == pf.fn = "extendRoute" /\ pf.pc = "returned"

\* the factor is above 1 (den = 0 is +Inf)
FactorAboveOne == pf.den = 0 \/ pf.num > pf.den

\* consecutive pairs of distinct points among the first i points
DistinctPairs(points, i) ==
    Cardinality({j \in 1..(i - 1) : points[j] # points[j + 1]})

\* C23 as stated: for every route of at least 2 points and every factor
\* above 1, extendRoute returns strictly more points than it was given
MorePointsFromTwo ==
    ExtendReturned /\ Len(pf.points) >= 2 /\ FactorAboveOne
    => Len(pf.result) > Len(pf.points)

\* C23: for every route of more than 2 points that has two consecutive
\* points that differ, and every factor above 1, extendRoute returns
\* strictly more points than it was given.
C23_MorePoints ==
    ExtendReturned /\ Len(pf.points) > 2 /\ FactorAboveOne
    /\ DistinctPairs(pf.points, Len(pf.points)) > 0
    => Len(pf.result) > Len(pf.points)

\* a route of 3 points was extended by a factor above 1
C23_Witness ==
    /\ ExtendReturned
    /\ Len(pf.points) = 3
    /\ pf.num = 2 /\ pf.den = 1
    /\ DistinctPairs(pf.points, 3) = 2
    /\ Len(pf.result) = 5

\* a route of 2 distinct points comes back as it is
TwoPointsUnchanged ==
    ExtendReturned /\ Len(pf.points) <= 2 => pf.result = pf.points

(***************************************************************************)
(* C29.                                                                    *)
(***************************************************************************)
\* the result is the input with k points put between the two points of
\* every consecutive pair that differ, and nothing else
InsertedPerPair(k) ==
    /\ Len(pf.result) = Len(pf.points) + k * DistinctPairs(pf.points, Len(pf.points))
    /\ \A i \in 1..Len(pf.points) :
          pf.result[i + k * DistinctPairs(pf.points, i)] = pf.points[i]

\* the factor rounded to the nearest integer, and cut to its integer part
RoundedFactor == (2 * pf.num + pf.den) \div (2 * pf.den)
TruncatedFactor == pf.num \div pf.den

\* C29 as stated: max(1, round(f) - 1) points per pair of distinct points
RoundedZigzags ==
    ExtendReturned /\ Len(pf.points) > 2 /\ pf.den > 0 /\ pf.num > pf.den
    => InsertedPerPair(Max2(1, RoundedFactor - 1))

\* C29: for every route of more than 2 points and every finite factor f
\* above 1, extendRoute inserts exactly max(1, trunc(f) - 1) points between
\* the two points of each consecutive pair of distinct points (1 point per
\* pair at f = 2.7).
C29_TruncatedZigzags ==
    ExtendReturned /\ Len(pf.points) > 2 /\ pf.den > 0 /\ pf.num > pf.den
    => InsertedPerPair(Max2(1, TruncatedFactor - 1))

\* a route was extended by 3.5: 2 points per pair
C29_Witness ==
    /\ ExtendReturned
    /\ Len(pf.points) = 4
    /\ pf.num = 7 /\ pf.den = 2
    /\ DistinctPairs(pf.points, 4) = 3
    /\ Len(pf.result) = 10

(***************************************************************************)
(* C24.                                                                    *)
(***************************************************************************)
\* a step of the suggest / routes request
RequestStep == rq' # rq \/ pcR' # pcR

\* C24: a suggestion request leaves the shared track collection unchanged:
\* whatever the routing service does and whichever ladder steps run, no step
\* of the request changes the records of the collection or their points;
\* only the request's own candidates are created or modified.
C24_CollectionUntouched == [][RequestStep => routes' = routes]_vars

\* a request that went through ladder steps returned, the collection
\* holding the tracks it held when the request scanned it
C24_Witness ==
    /\ Returned
    /\ Len(rq.steps) >= 2
    /\ Len(rq.result) = 1
    /\ Len(routes) > 0
    /\ Len(routes) = rq.nRoutes
    /\ \A i \in 1..Len(routes) : routes[i].trackPoints = TrackOf(files[routes[i].filename])

(***************************************************************************)
(* C25.                                                                    *)
(***************************************************************************)
MaxLadderSteps == {"max08", "max05", "maxRect"}

\* the request ended by taking a re-conformed candidate of the
\* max-distance ladder
MaxLadderAccepted ==
    /\ Returned /\ rq.fn = Gsr
    /\ Len(rq.steps) >= 2
    /\ rq.steps[Len(rq.steps)].step \in MaxLadderSteps
    /\ rq.steps[Len(rq.steps)].outcome = "accepted"

\* C25 as stated: a re-conformed candidate of the max-distance ladder is
\* accepted only if its length is at most max
AcceptedAtMostMax ==
    MaxLadderAccepted => rq.streetRoute.distance <= rq.maxDistance

\* C25: in the max-distance-violated branch, a re-conformed candidate (the
\* perimeter scaled by 0.8 x ratio, by 0.5 x ratio, or the small square) is
\* accepted only if its length is at most 1.1 x max; a longer candidate is
\* never accepted.
C25_AcceptedWithinMargin ==
    MaxLadderAccepted => 10 * rq.streetRoute.distance <= 11 * rq.maxDistance

\* a candidate of the second or third attempt was accepted, the attempts
\* before it having come back too long
C25_Witness ==
    /\ MaxLadderAccepted
    /\ Len(rq.steps) >= 3
    /\ rq.steps[2].outcome = "rejected"
    /\ 10 * rq.streetRoute.distance <= 11 * rq.maxDistance

\* a candidate longer than max was accepted
AcceptedAboveMax ==
    /\ MaxLadderAccepted
    /\ rq.streetRoute.distance > rq.maxDistance

(***************************************************************************)
(* C26.                                                                    *)
(***************************************************************************)
\* the max-distance branch ended with the mathematical scaling of the first
\* conformed route
ScalingUsed ==
    /\ Returned /\ rq.fn = Gsr
    /\ Len(rq.steps) >= 1
    /\ rq.steps[1].outcome = "ok"
    /\ rq.maxDistance > 0
    /\ rq.streetDistance > rq.maxDistance
    /\ rq.steps[Len(rq.steps)].outcome # "accepted"

AllThreeAttempted ==
    /\ Len(rq.steps) = 4
    /\ rq.steps[2].step = "max08"
    /\ rq.steps[3].step = "max05"
    /\ rq.steps[4].step = "maxRect"
    /\ \A i \in 2..4 : rq.steps[i].outcome \in {"rejected", "failed"}

\* C26: in the max-distance-violated branch, street conforming is abandoned
\* for mathematical scaling only after all three re-conform attempts (0.8 x
\* ratio, 0.5 x ratio, small square) have been made in that order and none
\* was accepted, whether an attempt came back too long or failed.
C26_ScalingAfterAllThree == ScalingUsed => AllThreeAttempted

\* what holds: scaling comes after all three attempts, or right after the
\* first attempt when that one failed
ScalingAfterAllThreeOrFirstFailure ==
    ScalingUsed =>
        \/ AllThreeAttempted
        \/ /\ Len(rq.steps) = 2
           /\ rq.steps[2].step = "max08"
           /\ rq.steps[2].outcome = "failed"

\* the first attempt came back too long, the second one failed, and the
\* third one was made all the same
ThirdAfterSecondFailure ==
    /\ ScalingUsed
    /\ AllThreeAttempted
    /\ rq.steps[2].outcome = "rejected"
    /\ rq.steps[3].outcome = "failed"

(***************************************************************************)
(* C27.                                                                    *)
(***************************************************************************)
MinLadderOrder == <<"minPentagon", "minPentagon2", "minSimple", "minSimpleLarge">>

\* the seed of the k-th step of the min-distance ladder: pentagon at radius
\* r = sqrt(min/10)/111, pentagon at 2r, 2-point seed at sqrt(min/2)/111,
\* 2-point seed at sqrt(min)/111
MinLadderSeed(k) ==
    CASE k = 1 -> PolygonPoints(rq.center, SqrtOffset(rq.minDistance, 10), NumPentagon)
      [] k = 2 -> PolygonPoints(rq.center, 2 * SqrtOffset(rq.minDistance, 10), NumPentagon)
      [] k = 3 -> SimplePoints(rq.center, SqrtOffset(rq.minDistance, 2))
      [] OTHER -> SimplePoints(rq.center, SqrtOffset(rq.minDistance, 1))

\* C27: in the min-distance-violated branch of generateSuggestedRoutes the
\* seeds are conformed in the fixed order pentagon at radius r, pentagon at
\* 2r, 2-point seed at sqrt(min/2)/111, 2-point seed at sqrt(min)/111; a
\* later seed is tried only if every earlier one failed or came back shorter
\* than min, the first result of length >= min is taken, and no routing
\* call is made after that.
C27_MinLadderInOrder ==
    rq.fn = Gsr =>
        /\ \A i \in 2..Len(rq.steps) :
              rq.steps[i].step \in MinLadderSteps =>
                  /\ i <= 5
                  /\ \A j \in 2..i : rq.steps[j].step = MinLadderOrder[j - 1]
                  /\ \A j \in 2..(i - 1) :
                        rq.steps[j].outcome \in {"failed", "rejected"}
                  /\ rq.steps[i].outcome = "accepted" =>
                        /\ i = Len(rq.steps)
                        /\ ~CallInFlight
                        /\ rq.streetRoute.distance >= rq.minDistance
        /\ pcR \in MinLadderSteps =>
              /\ pcR = MinLadderOrder[Len(rq.steps)]
              /\ rq.sent = MinLadderSeed(Len(rq.steps))

\* the first three seeds failed or came back short and the fourth was taken
C27_Witness ==
    /\ Returned /\ rq.fn = Gsr
    /\ Len(rq.steps) = 5
    /\ rq.steps[2].outcome = "rejected"
    /\ rq.steps[3].outcome = "failed"
    /\ rq.steps[5].step = "minSimpleLarge"
    /\ rq.steps[5].outcome = "accepted"
    /\ rq.streetRoute.distance >= rq.minDistance

(***************************************************************************)
(* C28.                                                                    *)
(***************************************************************************)
\* the request has built its step-3 candidate
CandidateBuilt == rq.fn = Gsr /\ Len(rq.perimeter) > 0

\* the candidate is the perimeter p0 shrunk, when max is set and p0 is
\* longer than max
ShrunkFrom(p0) ==
    LET length == calculateRouteDistance(p0)
    IN  /\ rq.maxDistance > 0 /\ length > rq.maxDistance
        /\ rq.perimeter = adjustRouteDistance(p0, rq.maxDistance, length)

\* the candidate is the perimeter p0 zigzag-extended, when p0 is not longer
\* than a max that is set, min is set and p0 is shorter than min
ExtendedFrom(p0) ==
    LET length == calculateRouteDistance(p0)
    IN  /\ ~(rq.maxDistance > 0 /\ length > rq.maxDistance)
        /\ rq.minDistance > 0 /\ length < rq.minDistance
        /\ \E infZig \in InfZigzags :
              rq.perimeter = extendRoute(p0, rq.minDistance, length, infZig)

\* the candidate is the perimeter p0 itself, when neither transform applies
LeftAsItIs(p0) ==
    LET length == calculateRouteDistance(p0)
    IN  /\ ~(rq.maxDistance > 0 /\ length > rq.maxDistance)
        /\ ~(rq.minDistance > 0 /\ length < rq.minDistance)
        /\ rq.perimeter = p0

\* C28: step 3 applies at most one transform to the initial perimeter:
\* shrink toward the centroid by max/length when max is set and length >
\* max; otherwise zigzag-extend by min/length when min is set and length <
\* min; otherwise the perimeter is left unchanged.  The candidate's distance
\* is recomputed from its points after either transform.
C28_OneTransform ==
    CandidateBuilt =>
        /\ \E jit \in env.jitters :
              LET p0 == Perimeter(rq.box, jit)
              IN  ShrunkFrom(p0) \/ ExtendedFrom(p0) \/ LeftAsItIs(p0)
        /\ rq.suggestedRoute.points = rq.perimeter
        /\ rq.suggestedRoute.distance = calculateRouteDistance(rq.perimeter)
        /\ ~rq.suggestedRoute.followsStreets

\* a perimeter longer than max was shrunk, and its distance recomputed
C28_Witness ==
    /\ CandidateBuilt
    /\ \E jit \in env.jitters :
          /\ ShrunkFrom(Perimeter(rq.box, jit))
          /\ rq.perimeter # Perimeter(rq.box, jit)
    /\ rq.suggestedRoute.distance = calculateRouteDistance(rq.perimeter)
    /\ rq.suggestedRoute.distance <= rq.maxDistance

\* a perimeter shorter than min was zigzag-extended
ShortPerimeterExtended ==
    /\ CandidateBuilt
    /\ \E jit \in env.jitters :
          /\ ExtendedFrom(Perimeter(rq.box, jit))
          /\ Len(rq.perimeter) > 5

(***************************************************************************)
(* C30.                                                                    *)
(***************************************************************************)
ConformSucceeded == ConformReturned /\ ~cf.err

\* the path length of the returned points, the length the service reported
\* for them, and 2 x (width + height) of their bounding box
RecomputedLength == calculateRouteDistance(cf.route.points)
ReportedLength == cf.resp.routes[1].distance
BoxEstimate == EstimatedDistance(cf.route.points)

\* C30: getRouteFollowingStreets reports the recomputed path length whenever
\* it is at least 0.1 km; it reports the service-reported length only when
\* the recomputed length of a multi-point result is below 0.1 km; and it
\* reports the bounding-box estimate 2 x (width + height) only when both the
\* recomputed and the service-reported lengths are below 0.1 km.
C30_DistanceReported ==
    ConformSucceeded =>
        \/ /\ RecomputedLength >= SmallDistance
           /\ cf.route.distance = RecomputedLength
        \/ /\ Len(cf.route.points) >= 2
           /\ RecomputedLength < SmallDistance
           /\ ReportedLength >= SmallDistance
           /\ cf.route.distance = ReportedLength
        \/ /\ RecomputedLength < SmallDistance
           /\ ReportedLength < SmallDistance
           /\ cf.route.distance = BoxEstimate

\* what holds: the same three cases, the second one also for a result of
\* fewer than 2 points
DistanceReportedOfAnyResult ==
    ConformSucceeded =>
        \/ /\ RecomputedLength >= SmallDistance
           /\ cf.route.distance = RecomputedLength
        \/ /\ RecomputedLength < SmallDistance
           /\ ReportedLength >= SmallDistance
           /\ cf.route.distance = ReportedLength
        \/ /\ RecomputedLength < SmallDistance
           /\ ReportedLength < SmallDistance
           /\ cf.route.distance = BoxEstimate

\* a result of several points shorter than 0.1 km got the length the
\* service reported
TinyResultGetsReportedLength ==
    /\ ConformSucceeded
    /\ Len(cf.route.points) >= 2
    /\ RecomputedLength > 0 /\ RecomputedLength < SmallDistance
    /\ cf.route.distance = ReportedLength
    /\ ReportedLength >= SmallDistance

\* a result of several points shorter than 0.1 km, with no length reported,
\* got the bounding-box estimate
TinyResultGetsEstimate ==
    /\ ConformSucceeded
    /\ Len(cf.route.points) >= 2
    /\ RecomputedLength > 0 /\ RecomputedLength < SmallDistance
    /\ ReportedLength = 0
    /\ cf.route.distance = BoxEstimate
    /\ BoxEstimate > 0

(***************************************************************************)
(* C18.                                                                    *)
(***************************************************************************)
\* what is left to do: the bytes not yet read, then the position in the
\* loop body
DecodeMeasure(d) ==
    8 * (Len(d.polyline) - d.index)
    + (CASE d.pc = "outer" -> IF d.index < Len(d.polyline) THEN 1 ELSE 0 - 3
         [] d.pc = "lat"   -> 0
         [] d.pc = "lng"   -> 0 - 1
         [] OTHER          -> 0 - 4)

\* C18: decodePolyline terminates on every string, also on one that ends in
\* the middle of a value, and never reads a byte at an index >= the length:
\* every step reads inside the string and brings the end nearer.
C18_DecodeTerminates ==
    [][ /\ dec'.pc # "panic"
        /\ dec'.index <= Len(dec'.polyline)
        /\ DecodeMeasure(dec') < DecodeMeasure(dec)
        /\ DecodeMeasure(dec') >= 0 - 4 ]_vars

\* the string of the test followed by a byte with the continuation bit set
\* has been decoded to the end
C18_Witness ==
    /\ dec.pc = "done"
    /\ dec.polyline = TestPolyline \o <<95>>
    /\ dec.index = Len(dec.polyline)

\* a string that holds a latitude and no longitude has been decoded as well
LatitudeAloneDecoded ==
    /\ dec.pc = "done"
    /\ dec.polyline = SubSeq(TestPolyline, 1, 5)

(***************************************************************************)
(* C19, C20: the polyline algorithm, written from its description.         *)
(***************************************************************************)
\* the number a complete group of 5-bit chunks stands for
Signed(v) == IF v % 2 = 1 THEN 0 - ((v + 1) \div 2) ELSE v \div 2

\* the complete values of the string in order, and whether bytes of an
\* incomplete value follow them
RECURSIVE Scan(_, _, _, _, _)
Scan(bytes, i, acc, shift, vals) ==
    IF i > Len(bytes) THEN [vals |-> vals, partial |-> shift > 0]
    ELSE LET c == bytes[i] - 63
             v == acc + (c % 32) * Pow2(shift)
         IN  IF c >= 32
             THEN Scan(bytes, i + 1, v, shift + 5, vals)
             ELSE Scan(bytes, i + 1, 0, 0, Append(vals, Signed(v)))

Values(bytes) == Scan(bytes, 1, 0, 0, <<>>)

\* the first k points: running sums of the pairs of values
RECURSIVE PointsOf(_, _)
PointsOf(vals, k) ==
    IF k = 0 THEN <<>>
    ELSE LET before == PointsOf(vals, k - 1)
             last   == IF k = 1 THEN <<0, 0>> ELSE before[k - 1]
         IN  Append(before, <<last[1] + vals[2 * k - 1], last[2] + vals[2 * k]>>)

\* the points the string holds completely
CompletePoints(bytes) ==
    PointsOf(Values(bytes).vals, Len(Values(bytes).vals) \div 2)

\* every byte is a character of the encoding
Encoded(bytes) == \A i \in 1..Len(bytes) : bytes[i] >= 63

\* complete points followed by a value that is cut short
Truncated(bytes) ==
    /\ Encoded(bytes)
    /\ Values(bytes).partial \/ Len(Values(bytes).vals) % 2 = 1

\* the string is the encoding of points, nothing missing
Complete(bytes) ==
    /\ Encoded(bytes)
    /\ ~Values(bytes).partial
    /\ Len(Values(bytes).vals) % 2 = 0

\* C19: for the complete encoding of k points followed by a truncated value
\* decodePolyline returns exactly those k points: no point is built from
\* the incomplete value.
C19_TruncatedDropped ==
    dec.pc = "done" /\ Truncated(dec.polyline) =>
        dec.coordinates = CompletePoints(dec.polyline)

\* what the code does with the truncated value: one point more
TruncatedAddsPoint ==
    dec.pc = "done" /\ Truncated(dec.polyline) =>
        /\ Len(dec.coordinates) = Len(CompletePoints(dec.polyline)) + 1
        /\ SubSeq(dec.coordinates, 1, Len(dec.coordinates) - 1)
             = CompletePoints(dec.polyline)

\* C20: decodePolyline agrees with the polyline algorithm (5-bit chunks,
\* continuation bit 0x20, sign folding on odd values, running deltas, scale
\* 1e5): the string of the test decodes to (38.5, -120.2), (40.7, -120.95),
\* (43.252, -126.453) as integers x 1e5, the empty string to no point.
C20_DecodesReference ==
    dec.pc = "done" =>
        /\ (dec.polyline = TestPolyline =>
              dec.coordinates = << <<3850000, 0 - 12020000>>,
                                   <<4070000, 0 - 12095000>>,
                                   <<4325200, 0 - 12645300>> >>)
        /\ (dec.polyline = <<>> => dec.coordinates = <<>>)
        /\ (Complete(dec.polyline) =>
              dec.coordinates = CompletePoints(dec.polyline))

\* the string of the test has been decoded to its three points
C20_Witness ==
    /\ dec.pc = "done"
    /\ dec.polyline = TestPolyline
    /\ Len(dec.coordinates) = 3
    /\ dec.coordinates[3] = <<4325200, 0 - 12645300>>


(***************************************************************************)
(* C31.                                                                    *)
(***************************************************************************)
PerimeterBuilt == pf.fn = "perimeter" /\ pf.pc = "returned"

\* a and b differ by at most 5% of span
WithinFivePercent(a, b, span) ==
    100 * (a - b) <= 5 * span /\ 100 * (b - a) <= 5 * span

\* C31: the initial perimeter always has exactly 5 points, visits the
\* corners in the order (minLat,minLng), (minLat,maxLng), (maxLat,maxLng),
\* (maxLat,minLng), ends with a copy of its first point, and every coordinate
\* differs from the corresponding edge of the bounding box by at most 5% of
\* the box's span in that axis, so the jittered min edge never passes the
\* jittered max edge.
C31_PerimeterShape ==
    PerimeterBuilt =>
        LET p       == pf.result
            box     == pf.box
            latSpan == box.maxLat - box.minLat
            lngSpan == box.maxLng - box.minLng
        IN  /\ Len(p) = 5
            /\ p[5] = p[1]
            /\ p[2][1] = p[1][1] /\ p[3][2] = p[2][2]
            /\ p[4][1] = p[3][1] /\ p[4][2] = p[1][2]
            /\ WithinFivePercent(p[1][1], box.minLat, latSpan)
            /\ WithinFivePercent(p[1][2], box.minLng, lngSpan)
            /\ WithinFivePercent(p[3][1], box.maxLat, latSpan)
            /\ WithinFivePercent(p[3][2], box.maxLng, lngSpan)
            /\ p[1][1] <= p[3][1]
            /\ p[1][2] <= p[3][2]

\* both min edges were moved inward and both max edges inward as far as the
\* jitter goes, on a box that has a span
C31_Witness ==
    /\ PerimeterBuilt
    /\ pf.box.minLat = 1000
    /\ pf.jit = <<JitterPerMille - 1, JitterPerMille - 1,
                  0 - JitterPerMille, 0 - JitterPerMille>>
    /\ pf.result[1][1] > pf.box.minLat
    /\ pf.result[3][1] < pf.box.maxLat
    /\ pf.result[1][1] < pf.result[3][1]

(***************************************************************************)
(* C32.                                                                    *)
(***************************************************************************)
\* the minimal axis-aligned box covering the points
CoveringBox(points) ==
    LET lats == {points[i][1] : i \in 1..Len(points)}
        lngs == {points[i][2] : i \in 1..Len(points)}
    IN  [minLat |-> CHOOSE x \in lats : \A y \in lats : x <= y,
         maxLat |-> CHOOSE x \in lats : \A y \in lats : x >= y,
         minLng |-> CHOOSE x \in lngs : \A y \in lngs : x <= y,
         maxLng |-> CHOOSE x \in lngs : \A y \in lngs : x >= y]

\* the request scans a collection that holds at least one track point
ScansPoints ==
    /\ pcR = "scan"
    /\ pcR' # "scan"
    /\ Suggesting
    /\ AllTrackPoints(routes, 1) # <<>>

\* C32: for every non-empty track collection (including one whose first
\* track has no points, and tracks of any order), the bounding box computed
\* by a suggestion request is the minimal axis-aligned box covering all track
\* points: each bound equals the min or max of that coordinate over all
\* points of all tracks.
C32_MinimalBox ==
    [][ScansPoints => rq'.box = CoveringBox(AllTrackPoints(routes, 1))]_vars

\* the same when the first record of the collection has a point, or the
\* request is one of generateRouteWithMinDistance
MinimalBoxUnlessFirstEmpty ==
    [][ScansPoints /\ (rq.fn = Grmd \/ routes[1].trackPoints # <<>>)
          => rq'.box = CoveringBox(AllTrackPoints(routes, 1))]_vars

(***************************************************************************)
(* C33.                                                                    *)
(***************************************************************************)
\* sent is points read at the indices 1, 1 + step, 1 + 2 step, ..., with the
\* last index n in place of one past the end: indices that strictly increase
StridedIndex(k, step, n) == IF 1 + (k - 1) * step <= n THEN 1 + (k - 1) * step ELSE n

SubsequenceInOrder(sent, points) ==
    \E step \in 1..Max2(Len(points), 1) :
        /\ \A k \in 1..Len(sent) :
              sent[k] = points[StridedIndex(k, step, Len(points))]
        /\ \A k \in 1..(Len(sent) - 1) :
              StridedIndex(k, step, Len(points)) < StridedIndex(k + 1, step, Len(points))

\* C33: downsampling in Conform returns a subsequence of the input in the
\* original order whose first element is the input's first point and whose
\* last element equals the input's last point; inputs of at most 100 points
\* are sent unchanged.
C33_SubsequenceWithEnds ==
    WaypointsBuilt =>
        /\ (Len(wp.points) <= MaxWaypoints => wp.sent = wp.points)
        /\ (Len(wp.points) > 0 =>
              /\ Len(wp.sent) > 0
              /\ Len(wp.sent) <= Len(wp.points)
              /\ wp.sent[1] = wp.points[1]
              /\ wp.sent[Len(wp.sent)] = wp.points[Len(wp.points)]
              /\ SubsequenceInOrder(wp.sent, wp.points))

\* 202 different points were sampled at every second one and the last point,
\* which the stride does not reach, was added
C33_Witness ==
    /\ WaypointsBuilt
    /\ Len(wp.points) = 202
    /\ Len(wp.sent) = 102
    /\ wp.sent[101] = wp.points[201]
    /\ wp.sent[102] = wp.points[202]
    /\ wp.sent[101] # wp.sent[102]

(***************************************************************************)
(* C34.                                                                    *)
(***************************************************************************)
\* the record of a stored file with a .gpx name that parses as GPX
ImportedRecord(rec) ==
    /\ rec.filename \in GpxNames
    /\ IsStored(files, rec.filename)
    /\ ParsesAsGpx(files[rec.filename])
    /\ rec.trackPoints = TrackOf(files[rec.filename])

\* the upload handler is past every check: the request was a POST with a
\* form and a .gpx file, which was saved as sent and parsed
UploadPassedChecks ==
    /\ pcU = "append"
    /\ up.status = 0
    /\ up.filename \in GpxNames
    /\ files[up.filename] = up.content
    /\ ParsesAsGpx(up.content)

\* the start-up loader is past its check: the file it is at parsed
LoadPassedChecks ==
    /\ pcM = "loadAppend"
    /\ ParsesAsGpx(files[Head(loadQ)])

\* C34: the shared track collection is append-only: every step either
\* leaves it unchanged or appends exactly one record at its end, and an
\* append happens only for an import that passed every check (POST method,
\* parsable form, .gpx name, file saved, GPX parsed); records already in the
\* collection are never modified, reordered or removed.
C34_AppendOnly ==
    [][\/ routes' = routes
       \/ /\ Len(routes') = Len(routes) + 1
          /\ SubSeq(routes', 1, Len(routes)) = routes
          /\ ImportedRecord(routes'[Len(routes')])
          /\ \/ UploadPassedChecks /\ routes'[Len(routes')].filename = up.filename
             \/ LoadPassedChecks /\ routes'[Len(routes')].filename = Head(loadQ)]_vars

\* a second upload was appended behind the record of the first, which is as
\* it was
C34_Witness ==
    /\ pcU = "unlock"
    /\ Len(routes) = 2
    /\ routes[2].filename = up.filename
    /\ ImportedRecord(routes[1])
    /\ ImportedRecord(routes[2])

(***************************************************************************)
(* C35.                                                                    *)
(***************************************************************************)
\* the request is at a call of routesMutex.RLock()
AtRLock == pcR \in {"rlock", "rlock2"}

\* C35: no interleaving of suggestion requests with concurrent imports
\* deadlocks: a request never blocks on acquiring routesMutex while it
\* already holds it, so with a writer-preferring read/write lock (a pending
\* writer blocks new readers) every request and every import that has
\* started eventually finishes, assuming routing calls return.
C35_NeverBlocksHolding == AtRLock /\ readerCount > 0 => CanRLock

\* a request at its first RLock() holds nothing: it is only the second one,
\* inside the min-distance branch, that is called with the read lock held
FirstRLockHoldsNothing == pcR = "rlock" => readerCount = 0

\* requests that come through suggestHandler never reach the second
\* RLock(): with min > 0 and followStreets they are handed to
\* generateRouteWithMinDistance
HandlerNeverAtSecondRLock == rq.entry = "suggestHandler" => pcR # "rlock2"

(***************************************************************************)
(* C36.                                                                    *)
(***************************************************************************)
\* the paths the routing service may answer the call in flight with
AnswersInFlight ==
    {resp.routes[1].geometry :
        resp \in {r \in Responses(env.geometries, rq.sent) : Len(r.routes) > 0}}

\* the request returns on the answer to the call in flight, with a route
\* marked as following streets
ReturnsStreetRoute ==
    /\ CallInFlight
    /\ Suggesting
    /\ pcR' = "done"
    /\ Len(rq'.result) = 1
    /\ rq'.result[1].followsStreets

\* while a call is in flight the street route the request keeps is one the
\* service answered earlier, as it was answered
StreetRouteKeptAsAnswered ==
    [][CallInFlight /\ pcR' \in CallPositions
          => rq'.streetRoute.points \in {rq.streetRoute.points} \cup AnswersInFlight]_vars

\* C36: whenever a returned route has followsStreets = true, its points are
\* exactly the points of one successful Conform result of that request,
\* unmodified: a route whose points were scaled toward a centroid or
\* zigzag-extended after conforming is never returned with
\* followsStreets = true.
C36_StreetsAreConformed ==
    [][ReturnsStreetRoute
          => rq'.result[1].points \in {rq.streetRoute.points} \cup AnswersInFlight]_vars

\* the same for the requests that end with neither fallback
StreetsAreConformedWithoutFallback ==
    [][ReturnsStreetRoute /\ ~ScalingUsed' /\ ~ZigzagExtended'
          => rq'.result[1].points \in {rq.streetRoute.points} \cup AnswersInFlight]_vars

(***************************************************************************)
(* C37.                                                                    *)
(***************************************************************************)
\* a request through suggestHandler with followStreets = true and both
\* distances set, min <= max, returned a conformed route
HandlerBothSetReturned ==
    /\ Returned
    /\ rq.entry = "suggestHandler"
    /\ rq.followStreets
    /\ rq.minDistance > 0
    /\ rq.maxDistance >= rq.minDistance
    /\ Len(rq.result) = 1
    /\ rq.result[1].followsStreets

WentThroughMaxLadder == StepNames \cap {"max08", "max05", "maxRect"} # {}

\* C37: for a request through the /suggest handler with followStreets =
\* true and both min and max set (min <= max), the max constraint is applied
\* to the result: a route accepted because its conformed length reached min
\* is never returned with a length above max unless it first went through
\* the max-distance ladder.
C37_MaxApplied ==
    HandlerBothSetReturned /\ rq.result[1].distance >= rq.minDistance =>
        rq.result[1].distance <= rq.maxDistance \/ WentThroughMaxLadder

\* such a request is always one of generateRouteWithMinDistance, which makes
\* no call of the max-distance ladder
HandlerBothSetIsMinDistance ==
    HandlerBothSetReturned => rq.fn = Grmd /\ ~WentThroughMaxLadder

(***************************************************************************)
(* C38.                                                                    *)
(***************************************************************************)
AnchorChosen == pf.fn = "anchor" /\ pf.pc = "returned"

\* the centre of the minimal box covering the points
CentreOfPoints(points) ==
    LET b == CoveringBox(points)
    IN  <<(b.minLat + b.maxLat) \div 2, (b.minLng + b.maxLng) \div 2>>

\* C38: generateRouteWithMinDistance uses the fixed default anchor if and
\* only if the track collection contains no point: whenever at least one
\* track point exists (at any latitude, including exactly 0), the anchor is
\* the centre of the bounding box of the track points.
C38_DefaultOnlyWithoutPoints ==
    AnchorChosen =>
        LET all == AllTrackPoints(pf.routes, 1)
        IN  IF all = <<>>
            THEN pf.center = <<DefaultLat, DefaultLng>>
            ELSE pf.center = CentreOfPoints(all)

\* the same for collections whose points do not all lie at latitude 0
AnchorIsCentreOffEquator ==
    AnchorChosen =>
        LET all == AllTrackPoints(pf.routes, 1)
        IN  IF all = <<>>
            THEN pf.center = <<DefaultLat, DefaultLng>>
            ELSE (\E i \in 1..Len(all) : all[i][1] # 0) =>
                    pf.center = CentreOfPoints(all)

\* the box the loop builds is the minimal box of the points
AnchorBoxIsMinimal ==
    AnchorChosen /\ AllTrackPoints(pf.routes, 1) # <<>> =>
        pf.box = CoveringBox(AllTrackPoints(pf.routes, 1))

(***************************************************************************)
(* C39.                                                                    *)
(***************************************************************************)
\* records of the collection that carry the name n
RecordsOf(n) == {i \in 1..Len(routes) : routes[i].filename = n}

\* the server is up, no upload is under way, and every file of the data
\* directory parses: every upload so far that stored a file succeeded
UploadsSettled ==
    /\ pcM = "serving"
    /\ pcU = "idle"
    /\ \A n \in GpxNames : IsStored(files, n) => ParsesAsGpx(files[n])

\* C39: after any sequence of successful uploads (including uploading the
\* same filename more than once), the in-memory track collection holds
\* exactly one record per .gpx file in the data directory, so restarting the
\* process and reloading the directory yields the same collection.
C39_OneRecordPerFile ==
    UploadsSettled =>
        \A n \in GpxNames :
            Cardinality(RecordsOf(n)) = IF IsStored(files, n) THEN 1 ELSE 0

\* what holds: every stored file has a record, every record a stored file,
\* and the last record of a name is the record of the file as it is stored
AtLeastOneRecordPerFile ==
    UploadsSettled =>
        \A n \in GpxNames :
            /\ (RecordsOf(n) # {}) <=> IsStored(files, n)
            /\ IsStored(files, n) =>
                  LET last == CHOOSE i \in RecordsOf(n) : \A j \in RecordsOf(n) : j <= i
                  IN  routes[last] = processGPXData(n, files[n])

=============================================================================
